---- MODULE Spec2Model ----
(***************************************************************************)
(* A model of the mini-rdbms: the row store Table (src/core/Table.js), its *)
(* Column, the SQLParser, the Database and DatabaseManager catalogs and    *)
(* the QueryEngine that drives them.                                       *)
(*                                                                         *)
(* JavaScript values are records [ty, n, s] so that values of different    *)
(* JavaScript types can be compared with = (the strict equality ===): ty   *)
(* is the type, s the text of a string, n a boolean (0, 1) or the integer  *)
(* part of a number, whose fraction digits, if any, are in s.              *)
(***************************************************************************)
EXTENDS Integers, Sequences, FiniteSets, TLC

\* ------------------------------------------------------------------------
\* Bounds of the model
\* ------------------------------------------------------------------------
MaxRows == 3
MaxAfterFault == 1
MaxEngineRows == 2
MaxHeldRows == 2

\* Rows the tables a and b of the join runs hold between them
MaxJoinRows == 3

\* ------------------------------------------------------------------------
\* JavaScript values
\* ------------------------------------------------------------------------
Null == [ty |-> "null", n |-> 0, s |-> ""]
Undefined == [ty |-> "undefined", n |-> 0, s |-> ""]
Num(k) == [ty |-> "number", n |-> k, s |-> ""]
Str(x) == [ty |-> "string", n |-> 0, s |-> x]
Bool(b) == [ty |-> "boolean", n |-> (IF b THEN 1 ELSE 0), s |-> ""]

\* value !== null && value !== undefined, negated
IsNullish(v) == v.ty \in {"null", "undefined"}

\* String(k) for an integer k
RECURSIVE NatToStr(_)
NatToStr(k) ==
    LET digit == <<"0", "1", "2", "3", "4", "5", "6", "7", "8", "9">>[(k % 10) + 1]
    IN IF k < 10 THEN digit ELSE NatToStr(k \div 10) \o digit

IntToStr(k) == IF k < 0 THEN "-" \o NatToStr(-k) ELSE NatToStr(k)

\* The value a plain object inherits under a name of Object.prototype: a
\* function, or for __proto__ the prototype object itself
Inherited(key) == [ty |-> "object", n |-> 0, s |-> key]

\* String(value) of such an inherited value
ObjectString(key) ==
    IF key = "__proto__" THEN "[object Object]"
    ELSE "function " \o (IF key = "constructor" THEN "Object" ELSE key)
         \o "() { [native code] }"

\* The property key a value becomes when it subscripts a plain object:
\* obj[value] converts value with String(value).
ToKey(v) ==
    CASE v.ty = "string" -> v.s
      [] v.ty = "number" -> IntToStr(v.n) \o (IF v.s = "" THEN "" ELSE "." \o v.s)
      [] v.ty = "boolean" -> (IF v.n = 1 THEN "true" ELSE "false")
      [] v.ty = "null" -> "null"
      [] v.ty = "object" -> ObjectString(v.s)
      [] OTHER -> "undefined"

\* An index is a plain object literal {}: a lookup of a key it does not own
\* falls through to Object.prototype, whose properties are these.  Each is a
\* function or an object: truthy, and with no push, indexOf or map method.
ProtoKeys ==
    {"constructor", "__proto__", "hasOwnProperty", "isPrototypeOf",
     "propertyIsEnumerable", "toLocaleString", "toString", "valueOf",
     "__defineGetter__", "__defineSetter__", "__lookupGetter__",
     "__lookupSetter__"}

\* ------------------------------------------------------------------------
\* Column
\* ------------------------------------------------------------------------
DATA_TYPES == {"INT", "TEXT", "BOOL"}

\* A column that keeps the constraints as they were passed
ColumnAsGiven(name, type, options) ==
    [name |-> name, type |-> type, primaryKey |-> options.primaryKey,
     notNull |-> options.notNull, unique |-> options.unique]

\* new Column(name, type, options)
Column(name, type, options) ==
    [name |-> name,
     type |-> type,
     primaryKey |-> options.primaryKey,
     notNull |-> IF options.primaryKey THEN TRUE ELSE options.notNull,
     unique |-> IF options.primaryKey THEN TRUE ELSE options.unique]

\* column.isValidType(value)
IsValidType(column, value) ==
    IF IsNullish(value) THEN TRUE
    ELSE CASE column.type = "INT" -> value.ty = "number" /\ value.s = ""
           [] column.type = "TEXT" -> value.ty = "string"
           [] column.type = "BOOL" -> value.ty = "boolean"

\* column.validate(value): "" when the value is accepted, else the error
Validate(column, value) ==
    IF column.notNull /\ IsNullish(value) THEN "NOT NULL constraint violation"
    ELSE IF IsNullish(value) THEN ""
    ELSE IF ~IsValidType(column, value) THEN "Type mismatch"
    ELSE ""

\* ------------------------------------------------------------------------
\* Generic helpers
\* ------------------------------------------------------------------------
\* obj[key] of a plain object modelled as a function: the own property, else
\* the one inherited from Object.prototype, else undefined
Get(obj, key) ==
    IF key \in DOMAIN obj THEN obj[key]
    ELSE IF key \in ProtoKeys THEN Inherited(key)
    ELSE Undefined

Range(seq) == {seq[i] : i \in DOMAIN seq}

\* array.indexOf(x): the first position (1-based) holding x, 0 when absent
IndexOf(seq, x) ==
    IF \E i \in DOMAIN seq : seq[i] = x
    THEN CHOOSE i \in DOMAIN seq : seq[i] = x /\ \A j \in 1..(i - 1) : seq[j] # x
    ELSE 0

\* array.splice(i, 1) (1-based i)
RemoveAt(seq, i) == SubSeq(seq, 1, i - 1) \o SubSeq(seq, i + 1, Len(seq))

\* delete obj[key]
DeleteKey(obj, key) == [k \in (DOMAIN obj) \ {key} |-> obj[k]]

\* obj[key] = val
SetKey(obj, key, val) ==
    [k \in (DOMAIN obj) \cup {key} |-> IF k = key THEN val ELSE obj[k]]

EmptyObj == [k \in {} |-> <<>>]

\* ------------------------------------------------------------------------
\* Table: index maintenance.  An index is the object indexes[colName], a
\* function from property keys to arrays of 0-based row positions.  Each
\* operation returns [idx, err]; err = "TypeError" is the exception raised
\* by calling a missing method on an inherited Object.prototype property.
\* ------------------------------------------------------------------------
\* if (!index[value]) index[value] = []; index[value].push(rowIndex);
IndexPush(idx, value, rowIndex) ==
    LET Push(key) ==
            IF key \in DOMAIN idx
            THEN [idx |-> [idx EXCEPT ![key] = Append(@, rowIndex)], err |-> ""]
            ELSE IF key \in ProtoKeys
            THEN [idx |-> idx, err |-> "TypeError"]
            ELSE [idx |-> SetKey(idx, key, <<rowIndex>>), err |-> ""]
    IN Push(ToKey(value))

\* const a = index[value]; if (a) { i = a.indexOf(rowIndex);
\*   if (i !== -1) a.splice(i, 1); if (a.length === 0) delete index[value]; }
IndexRemove(idx, value, rowIndex) ==
    LET Splice(key, a, i) ==
            LET b == IF i # 0 THEN RemoveAt(a, i) ELSE a
            IN [idx |-> IF Len(b) = 0 THEN DeleteKey(idx, key)
                        ELSE [idx EXCEPT ![key] = b],
                err |-> ""]
        Remove(key) ==
            IF key \in DOMAIN idx
            THEN Splice(key, idx[key], IndexOf(idx[key], rowIndex))
            ELSE IF key \in ProtoKeys
            THEN [idx |-> idx, err |-> "TypeError"]
            ELSE [idx |-> idx, err |-> ""]
    IN Remove(ToKey(value))

\* _updateIndexesOnInsert(row, rowIndex), from the i-th indexed column on
RECURSIVE UpdateIndexesOnInsert(_, _, _, _, _)
UpdateIndexesOnInsert(indexes, order, row, rowIndex, i) ==
    IF i > Len(order) THEN [indexes |-> indexes, err |-> ""]
    ELSE LET colName == order[i]
             value == Get(row, colName)
             Pushed(r) ==
                 IF r.err # "" THEN [indexes |-> indexes, err |-> r.err]
                 ELSE UpdateIndexesOnInsert(
                          [indexes EXCEPT ![colName] = r.idx],
                          order, row, rowIndex, i + 1)
         IN IF IsNullish(value)
            THEN UpdateIndexesOnInsert(indexes, order, row, rowIndex, i + 1)
            ELSE Pushed(IndexPush(indexes[colName], value, rowIndex))

\* _updateIndexOnUpdate(colName, oldValue, newValue, rowIndex) on one index
UpdateIndexOnUpdate(idx, oldValue, newValue, rowIndex) ==
    LET Removed(r1) ==
            IF r1.err # "" THEN r1
            ELSE IF IsNullish(newValue) THEN r1
            ELSE IndexPush(r1.idx, newValue, rowIndex)
    IN Removed(IF IsNullish(oldValue) THEN [idx |-> idx, err |-> ""]
               ELSE IndexRemove(idx, oldValue, rowIndex))

\* _updateIndexesOnDelete(row, rowIndex), from the i-th indexed column on
RECURSIVE UpdateIndexesOnDelete(_, _, _, _, _)
UpdateIndexesOnDelete(indexes, order, row, rowIndex, i) ==
    IF i > Len(order) THEN [indexes |-> indexes, err |-> ""]
    ELSE LET colName == order[i]
             value == Get(row, colName)
             Removed(r) ==
                 IF r.err # "" THEN [indexes |-> indexes, err |-> r.err]
                 ELSE UpdateIndexesOnDelete(
                          [indexes EXCEPT ![colName] = r.idx],
                          order, row, rowIndex, i + 1)
         IN IF IsNullish(value)
            THEN UpdateIndexesOnDelete(indexes, order, row, rowIndex, i + 1)
            ELSE Removed(IndexRemove(indexes[colName], value, rowIndex))

\* The population loop of createIndex for one column: rows i.. of `rows`
RECURSIVE PopulateIndex(_, _, _, _)
PopulateIndex(idx, rows, columnName, i) ==
    IF i > Len(rows) THEN [idx |-> idx, err |-> ""]
    ELSE LET value == Get(rows[i], columnName)
             Pushed(r) ==
                 IF r.err # "" THEN r
                 ELSE PopulateIndex(r.idx, rows, columnName, i + 1)
         IN IF IsNullish(value) THEN PopulateIndex(idx, rows, columnName, i + 1)
            ELSE Pushed(IndexPush(idx, value, i - 1))

\* The second loop of _rebuildAllIndexes: rows outermost, indexed columns
\* innermost; (i, j) is the next (row, indexed column) pair to enter.
RECURSIVE RebuildLoop(_, _, _, _, _)
RebuildLoop(indexes, order, rows, i, j) ==
    IF i > Len(rows) THEN [indexes |-> indexes, err |-> ""]
    ELSE IF j > Len(order) THEN RebuildLoop(indexes, order, rows, i + 1, 1)
    ELSE LET colName == order[j]
             value == Get(rows[i], colName)
             Pushed(r) ==
                 IF r.err # "" THEN [indexes |-> indexes, err |-> r.err]
                 ELSE RebuildLoop([indexes EXCEPT ![colName] = r.idx],
                                  order, rows, i, j + 1)
         IN IF IsNullish(value)
            THEN RebuildLoop(indexes, order, rows, i, j + 1)
            ELSE Pushed(IndexPush(indexes[colName], value, i - 1))

\* _rebuildAllIndexes()
RebuildAllIndexes(indexes, order, rows) ==
    RebuildLoop([c \in DOMAIN indexes |-> EmptyObj], order, rows, 1, 1)

\* ------------------------------------------------------------------------
\* Comparison of JavaScript values
\* ------------------------------------------------------------------------
\* The printable ASCII characters in code order, from the space on (the
\* backquote, which no string of the model holds, is left out)
AsciiChars ==
    <<" ", "!", "\"", "#", "$", "%", "&", "'", "(", ")", "*", "+", ",", "-",
      ".", "/", "0", "1", "2", "3", "4", "5", "6", "7", "8", "9", ":", ";",
      "<", "=", ">", "?", "@", "A", "B", "C", "D", "E", "F", "G", "H", "I",
      "J", "K", "L", "M", "N", "O", "P", "Q", "R", "S", "T", "U", "V", "W",
      "X", "Y", "Z", "[", "\\", "]", "^", "_", "a", "b", "c", "d", "e",
      "f", "g", "h", "i", "j", "k", "l", "m", "n", "o", "p", "q", "r", "s",
      "t", "u", "v", "w", "x", "y", "z", "{", "|", "}", "~">>

\* The rank of an ASCII character in code order
CharCode(ch) ==
    CHOOSE i \in DOMAIN AsciiChars : AsciiChars[i] = ch

\* x < y for strings: the comparison of their code units, a proper prefix
\* being smaller
RECURSIVE StrLess(_, _)
StrLess(x, y) ==
    IF y = "" THEN FALSE
    ELSE IF x = "" THEN TRUE
    ELSE IF Head(x) # Head(y) THEN CharCode(Head(x)) < CharCode(Head(y))
    ELSE StrLess(Tail(x), Tail(y))

Digits == {"0", "1", "2", "3", "4", "5", "6", "7", "8", "9"}

IsDigits(x) == Len(x) >= 1 /\ \A i \in 1..Len(x) : SubSeq(x, i, i) \in Digits

\* parseInt(x, 10) of a string of digits
RECURSIVE DigitsToNat(_)
DigitsToNat(x) ==
    IF x = "" THEN 0
    ELSE DigitsToNat(SubSeq(x, 1, Len(x) - 1)) * 10
         + (CharCode(SubSeq(x, Len(x), Len(x))) - CharCode("0"))

\* ToNumber(v): [nan, n].  A string converts when it is empty or an integer
\* literal with an optional sign; the model's strings hold no white space,
\* fraction, exponent, hexadecimal or Infinity literal.
ToNumber(v) ==
    CASE v.ty = "number" -> [nan |-> FALSE, n |-> v.n]
      [] v.ty = "boolean" -> [nan |-> FALSE, n |-> v.n]
      [] v.ty = "null" -> [nan |-> FALSE, n |-> 0]
      [] v.ty = "string" ->
            (CASE v.s = "" -> [nan |-> FALSE, n |-> 0]
               [] IsDigits(v.s) -> [nan |-> FALSE, n |-> DigitsToNat(v.s)]
               [] Len(v.s) >= 2 /\ Head(v.s) = "-" /\ IsDigits(Tail(v.s)) ->
                     [nan |-> FALSE, n |-> 0 - DigitsToNat(Tail(v.s))]
               [] Len(v.s) >= 2 /\ Head(v.s) = "+" /\ IsDigits(Tail(v.s)) ->
                     [nan |-> FALSE, n |-> DigitsToNat(Tail(v.s))]
               [] OTHER -> [nan |-> TRUE, n |-> 0])
      [] OTHER -> [nan |-> TRUE, n |-> 0]

\* The primitive a relational operator compares: an object by its string
ToPrimitive(v) == IF v.ty = "object" THEN Str(ObjectString(v.s)) ELSE v

\* a < b
JsLess(a, b) ==
    LET Less(x, y) == ~x.nan /\ ~y.nan /\ x.n < y.n
        Compared(p, q) ==
            IF p.ty = "string" /\ q.ty = "string" THEN StrLess(p.s, q.s)
            ELSE Less(ToNumber(p), ToNumber(q))
    IN Compared(ToPrimitive(a), ToPrimitive(b))

\* a <= b
JsLessEq(a, b) ==
    LET LessEq(x, y) == ~x.nan /\ ~y.nan /\ x.n <= y.n
        Compared(p, q) ==
            IF p.ty = "string" /\ q.ty = "string" THEN ~StrLess(q.s, p.s)
            ELSE LessEq(ToNumber(p), ToNumber(q))
    IN Compared(ToPrimitive(a), ToPrimitive(b))

\* ------------------------------------------------------------------------
\* LIKE: new RegExp('^' + pattern.replace(/%/g, '.*').replace(/_/g, '.') + '$',
\* 'i').test(text)
\* ------------------------------------------------------------------------
\* The characters of a string, as a sequence of one-character strings
Chars(x) == [i \in 1..Len(x) |-> SubSeq(x, i, i)]

UpperLetters ==
    <<"A", "B", "C", "D", "E", "F", "G", "H", "I", "J", "K", "L", "M",
      "N", "O", "P", "Q", "R", "S", "T", "U", "V", "W", "X", "Y", "Z">>
LowerLetters ==
    <<"a", "b", "c", "d", "e", "f", "g", "h", "i", "j", "k", "l", "m",
      "n", "o", "p", "q", "r", "s", "t", "u", "v", "w", "x", "y", "z">>

\* The 'i' flag: characters are compared after case folding
Fold(ch) ==
    IF IndexOf(UpperLetters, ch) # 0 THEN LowerLetters[IndexOf(UpperLetters, ch)]
    ELSE ch

\* The two replace calls, on a sequence of characters
RECURSIVE LikeToRegex(_)
LikeToRegex(p) ==
    IF p = <<>> THEN <<>>
    ELSE (CASE Head(p) = "%" -> <<".", "*">>
            [] Head(p) = "_" -> <<".">>
            [] OTHER -> <<Head(p)>>) \o LikeToRegex(Tail(p))

\* The regular expression source compiled: a sequence of atoms [ch, star],
\* ch = "." matching any character; a * with nothing to repeat is a
\* SyntaxError.  Source characters are letters, digits, '.' and '*'.
RECURSIVE RegexAtoms(_)
RegexAtoms(src) ==
    IF src = <<>> THEN [atoms |-> <<>>, err |-> ""]
    ELSE IF Head(src) = "*" THEN [atoms |-> <<>>, err |-> "SyntaxError"]
    ELSE LET star == Len(src) >= 2 /\ src[2] = "*"
             rest == RegexAtoms(SubSeq(src, IF star THEN 3 ELSE 2, Len(src)))
         IN IF rest.err # "" THEN rest
            ELSE [atoms |-> <<[ch |-> Head(src), star |-> star]>> \o rest.atoms,
                  err |-> ""]

AtomMatches(atom, ch) == atom.ch = "." \/ Fold(atom.ch) = Fold(ch)

\* Whether atoms[i..] match exactly text[j..]
RECURSIVE RegexMatch(_, _, _, _)
RegexMatch(atoms, i, text, j) ==
    IF i > Len(atoms) THEN j > Len(text)
    ELSE IF atoms[i].star
    THEN RegexMatch(atoms, i + 1, text, j)
         \/ (j <= Len(text) /\ AtomMatches(atoms[i], text[j])
             /\ RegexMatch(atoms, i, text, j + 1))
    ELSE j <= Len(text) /\ AtomMatches(atoms[i], text[j])
         /\ RegexMatch(atoms, i + 1, text, j + 1)

\* The LIKE branch of a comparison of the string `text` with `pattern`
\* (any value): [b, err]
LikeTest(text, pattern) ==
    LET Test(re) ==
            IF re.err # "" THEN [b |-> FALSE, err |-> re.err]
            ELSE [b |-> RegexMatch(re.atoms, 1, Chars(text), 1), err |-> ""]
    IN IF pattern.ty # "string" THEN [b |-> FALSE, err |-> "TypeError"]
       ELSE Test(RegexAtoms(LikeToRegex(Chars(pattern.s))))

\* ------------------------------------------------------------------------
\* Table
\* ------------------------------------------------------------------------
\* The absent WHERE clause (null)
NoWhere == [column |-> "", operator |-> "", value |-> Undefined]

ColumnNames(t) == [i \in DOMAIN t.columns |-> t.columns[i].name]

HasColumn(t, colName) == \E i \in DOMAIN t.columns : t.columns[i].name = colName

\* this.columnMap[colName] is truthy: columnMap is a plain object
HasColumnEntry(t, colName) == HasColumn(t, colName) \/ colName \in ProtoKeys

\* this.columnMap[colName]
ColumnOf(t, colName) ==
    t.columns[CHOOSE i \in DOMAIN t.columns : t.columns[i].name = colName]

IsUniqueColumn(column) == column.unique \/ column.primaryKey

\* this.columns.find(col => col.primaryKey): its position, 0 when there is none
PrimaryKeyPos(columns) ==
    IF \E i \in DOMAIN columns : columns[i].primaryKey
    THEN CHOOSE i \in DOMAIN columns :
             columns[i].primaryKey /\ \A j \in 1..(i - 1) : ~columns[j].primaryKey
    ELSE 0

\* new Table(name, columns): no rows, a unique set for the primary key column
\* and for every unique column that is not a primary key, an index on the
\* primary key column.
NewTable(name, columns) ==
    LET pk == PrimaryKeyPos(columns)
        uniq == {columns[i].name : i \in {j \in DOMAIN columns :
                     j = pk \/ (columns[j].unique /\ ~columns[j].primaryKey)}}
    IN [name |-> name,
        columns |-> columns,
        rows |-> <<>>,
        uniqueMap |-> [c \in uniq |-> {}],
        indexes |-> IF pk = 0 THEN EmptyObj
                    ELSE [c \in {columns[pk].name} |-> EmptyObj],
        indexOrder |-> IF pk = 0 THEN <<>> ELSE <<columns[pk].name>>]

\* _rowMatchesWhere(row, whereClause): [b, err]
RowMatchesWhere(row, where) ==
    LET rowValue == Get(row, where.column)
        value == where.value
        op == where.operator
    IN CASE op \in {"=", "=="} -> [b |-> rowValue = value, err |-> ""]
         [] op \in {"!=", "<>"} -> [b |-> rowValue # value, err |-> ""]
         [] op = ">" -> [b |-> JsLess(value, rowValue), err |-> ""]
         [] op = "<" -> [b |-> JsLess(rowValue, value), err |-> ""]
         [] op = ">=" -> [b |-> JsLessEq(value, rowValue), err |-> ""]
         [] op = "<=" -> [b |-> JsLessEq(rowValue, value), err |-> ""]
         [] op = "LIKE" -> IF rowValue.ty # "string" THEN [b |-> FALSE, err |-> ""]
                           ELSE LikeTest(rowValue.s, value)
         [] OTHER -> [b |-> FALSE, err |-> "Unknown operator"]

\* The scan `for i ...: if (_rowMatchesWhere(rows[i], where)) push(i)` over
\* the row positions listed in `todo` (1-based), in that order:
\* [hits, err], hits the matching positions in scan order.
RECURSIVE ScanRows(_, _, _, _)
ScanRows(rows, where, todo, hits) ==
    LET Matched(m) ==
            IF m.err # "" THEN [hits |-> hits, err |-> m.err]
            ELSE ScanRows(rows, where, Tail(todo),
                          IF m.b THEN Append(hits, Head(todo)) ELSE hits)
    IN IF todo = <<>> THEN [hits |-> hits, err |-> ""]
       ELSE Matched(RowMatchesWhere(rows[Head(todo)], where))

Ascending(k) == [i \in 1..k |-> i]
Descending(k) == [i \in 1..k |-> k + 1 - i]

\* The error constant of a property access on undefined, or of a call of
\* something that is not a function
TypeError == "TypeError"

\* insert, step 2: the first failure of the validation loop over
\* this.columns from column i on, "" when every column passes
RECURSIVE InsertValidate(_, _, _)
InsertValidate(t, rowData, i) ==
    IF i > Len(t.columns) THEN ""
    ELSE LET column == t.columns[i]
             value == Get(rowData, column.name)
             Validated(v) ==
                 IF v # "" THEN v
                 ELSE IF IsUniqueColumn(column) /\ ~IsNullish(value)
                 THEN IF column.name \notin DOMAIN t.uniqueMap THEN TypeError
                      ELSE IF value \in t.uniqueMap[column.name]
                      THEN "UNIQUE constraint violation"
                      ELSE InsertValidate(t, rowData, i + 1)
                 ELSE InsertValidate(t, rowData, i + 1)
         IN Validated(Validate(column, value))

\* insert, step 4: every unique column's non-null value joins its set
UniqueMapAdd(t, row) ==
    [c \in DOMAIN t.uniqueMap |->
        IF HasColumn(t, c) /\ IsUniqueColumn(ColumnOf(t, c)) /\ ~IsNullish(row[c])
        THEN t.uniqueMap[c] \cup {row[c]}
        ELSE t.uniqueMap[c]]

\* insert with the row stored before it is validated: a rejected row stays
InsertStoreFirst(t, rowData) ==
    LET row == [c \in Range(ColumnNames(t)) |-> Get(rowData, c)]
        rowIndex == Len(t.rows)
        Stored(v, pushed, ix) ==
            IF v # "" THEN [t |-> pushed, err |-> v, ret |-> Undefined]
            ELSE [t |-> [pushed EXCEPT !.uniqueMap = UniqueMapAdd(t, row),
                                       !.indexes = ix.indexes],
                  err |-> ix.err,
                  ret |-> IF ix.err = "" THEN row ELSE Undefined]
    IN Stored(InsertValidate(t, rowData, 1),
              [t EXCEPT !.rows = Append(@, row)],
              UpdateIndexesOnInsert(t.indexes, t.indexOrder, row, rowIndex, 1))

\* table.insert(rowData): [t, err, ret]; ret is the row object that was
\* pushed (the stored row itself is returned, not a copy)
Insert(t, rowData) ==
    LET row == [c \in Range(ColumnNames(t)) |-> Get(rowData, c)]
        rowIndex == Len(t.rows)
        Stored(v, pushed, ix) ==
            IF v # "" THEN [t |-> t, err |-> v, ret |-> Undefined]
            ELSE [t |-> [pushed EXCEPT !.indexes = ix.indexes],
                  err |-> ix.err,
                  ret |-> IF ix.err = "" THEN row ELSE Undefined]
    IN Stored(InsertValidate(t, rowData, 1),
              [t EXCEPT !.rows = Append(@, row),
                        !.uniqueMap = UniqueMapAdd(t, row)],
              UpdateIndexesOnInsert(t.indexes, t.indexOrder, row, rowIndex, 1))

\* table.truncate(): [t, err, ret]
Truncate(t) ==
    [t |-> [t EXCEPT !.rows = <<>>,
                     !.uniqueMap = [c \in DOMAIN t.uniqueMap |-> {}],
                     !.indexes = [c \in DOMAIN t.indexes |-> EmptyObj]],
     err |-> "",
     ret |-> Len(t.rows)]

\* table.createIndex(columnName): [t, err]
CreateIndex(t, columnName) ==
    LET Populated(r) ==
            [t |-> [t EXCEPT
                      !.indexes = SetKey(t.indexes, columnName, r.idx),
                      !.indexOrder = IF columnName \in DOMAIN t.indexes THEN @
                                     ELSE Append(@, columnName)],
             err |-> r.err]
    IN IF ~HasColumn(t, columnName)
       THEN [t |-> t, err |-> "Cannot create index: Unknown column"]
       ELSE Populated(PopulateIndex(EmptyObj, t.rows, columnName, 1))

\* table.dropIndex(columnName): [t, err]
DropIndex(t, columnName) ==
    [t |-> [t EXCEPT
              !.indexes = DeleteKey(t.indexes, columnName),
              !.indexOrder = IF columnName \in DOMAIN t.indexes
                             THEN RemoveAt(@, IndexOf(@, columnName))
                             ELSE @],
     err |-> ""]

\* { ...this.rows[i] } for a 0-based position i: the spread of undefined is {}
RowAt(rows, i) == IF i + 1 \in DOMAIN rows THEN rows[i + 1] ELSE EmptyObj

\* The positions the index of where.column lists under where.value, as
\* _filterRows reads them (rowIndexes); .map on an inherited property of the
\* plain object is a TypeError
RowIndexes(t, where) ==
    LET idx == t.indexes[where.column]
        key == ToKey(where.value)
    IN IF key \in DOMAIN idx THEN [pos |-> idx[key], err |-> ""]
       ELSE IF key \in ProtoKeys THEN [pos |-> <<>>, err |-> TypeError]
       ELSE [pos |-> <<>>, err |-> ""]

\* _filterRows(whereClause): [rows, err]; the index is used for '=' on an
\* indexed column and its bucket is read in the order it is stored
FilterRows(t, where) ==
    LET Indexed(r) ==
            [rows |-> [k \in DOMAIN r.pos |-> RowAt(t.rows, r.pos[k])],
             err |-> r.err]
        Scanned(r) ==
            [rows |-> [k \in DOMAIN r.hits |-> t.rows[r.hits[k]]], err |-> r.err]
    IN IF where.operator = "=" /\ where.column \in DOMAIN t.indexes
       THEN Indexed(RowIndexes(t, where))
       ELSE Scanned(ScanRows(t.rows, where, Ascending(Len(t.rows)), <<>>))

\* The length property of an inherited property of a plain object: the
\* number of parameters of the function, -1 for undefined (__proto__ is
\* Object.prototype, which has no length)
InheritedLength(key) ==
    IF key = "__proto__" THEN -1
    ELSE IF key \in {"toString", "toLocaleString", "valueOf"} THEN 0
    ELSE IF key \in {"__defineGetter__", "__defineSetter__"} THEN 2
    ELSE 1

\* findByPrimaryKey through the index: [found, row, stored, err]. The bucket
\* is read under String(pkValue); an inherited function with parameters
\* passes the length test and its element 0 is undefined, so the spread of
\* this.rows[undefined] is returned
FindByIndex(t, idx, key) ==
    IF key \in DOMAIN idx
    THEN IF Len(idx[key]) > 0
         THEN [found |-> TRUE, row |-> RowAt(t.rows, idx[key][1]), stored |-> 0,
               err |-> ""]
         ELSE [found |-> FALSE, row |-> EmptyObj, stored |-> 0, err |-> ""]
    ELSE IF key \in ProtoKeys /\ InheritedLength(key) > 0
    THEN [found |-> TRUE, row |-> EmptyObj, stored |-> 0, err |-> ""]
    ELSE [found |-> FALSE, row |-> EmptyObj, stored |-> 0, err |-> ""]

\* findByPrimaryKey by linear scan: the first stored row whose key is
\* strictly equal, returned as it is stored (position `stored`)
FindByScan(t, pkName, pkValue) ==
    LET hits == {i \in DOMAIN t.rows : Get(t.rows[i], pkName) = pkValue}
        First(i) == [found |-> TRUE, row |-> t.rows[i], stored |-> i, err |-> ""]
    IN IF hits = {} THEN [found |-> FALSE, row |-> EmptyObj, stored |-> 0,
                          err |-> ""]
       ELSE First(CHOOSE i \in hits : \A j \in hits : i <= j)

\* table.findByPrimaryKey(pkValue): [found, row, stored, err]; found is FALSE
\* for null
FindByPrimaryKey(t, pkValue) ==
    LET Named(pkName) ==
            IF pkName \in DOMAIN t.indexes
            THEN FindByIndex(t, t.indexes[pkName], ToKey(pkValue))
            ELSE FindByScan(t, pkName, pkValue)
    IN IF PrimaryKeyPos(t.columns) = 0
       THEN [found |-> FALSE, row |-> EmptyObj, stored |-> 0,
             err |-> "Table has no primary key"]
       ELSE Named(t.columns[PrimaryKeyPos(t.columns)].name)

\* table.select(columnNames, whereClause): [rows, err]
Select(t, columnNames, where) ==
    LET columnsToReturn ==
            IF "*" \in Range(columnNames) \/ Len(columnNames) = 0
            THEN ColumnNames(t) ELSE columnNames
        Projected(f) ==
            IF f.err # "" THEN [rows |-> <<>>, err |-> f.err]
            ELSE [rows |-> [k \in DOMAIN f.rows |->
                               [c \in Range(columnsToReturn) |-> Get(f.rows[k], c)]],
                  err |-> ""]
    IN IF \E i \in DOMAIN columnsToReturn : ~HasColumnEntry(t, columnsToReturn[i])
       THEN [rows |-> <<>>, err |-> "Unknown column"]
       ELSE Projected(IF where = NoWhere THEN [rows |-> t.rows, err |-> ""]
                      ELSE FilterRows(t, where))

\* update, the validation loop of one matched row over the SET entries from
\* entry j on: the first failure, "" when every entry passes
RECURSIVE UpdateValidate(_, _, _, _)
UpdateValidate(t, setClause, oldValues, j) ==
    IF j > Len(setClause) THEN ""
    ELSE LET colName == setClause[j].col
             newValue == setClause[j].val
             Validated(column, v) ==
                 IF v # "" THEN v
                 ELSE IF IsUniqueColumn(column) /\ newValue # Get(oldValues, colName)
                         /\ ~IsNullish(newValue)
                 THEN IF colName \notin DOMAIN t.uniqueMap THEN TypeError
                      ELSE IF newValue \in t.uniqueMap[colName]
                      THEN "UNIQUE constraint violation"
                      ELSE UpdateValidate(t, setClause, oldValues, j + 1)
                 ELSE UpdateValidate(t, setClause, oldValues, j + 1)
         IN IF ~HasColumn(t, colName) THEN TypeError
            ELSE Validated(ColumnOf(t, colName),
                           Validate(ColumnOf(t, colName), newValue))

\* update, the apply loop of one matched row (1-based position pos) over the
\* SET entries from entry j on: [t, err].  For each entry: the unique set,
\* then the index, then the row's column.
RECURSIVE UpdateApply(_, _, _, _, _)
UpdateApply(t, setClause, oldValues, pos, j) ==
    IF j > Len(setClause) THEN [t |-> t, err |-> ""]
    ELSE LET colName == setClause[j].col
             newValue == setClause[j].val
             oldValue == Get(oldValues, colName)
             Applied(column, ix) ==
                 LET missing == IsUniqueColumn(column)
                                /\ colName \notin DOMAIN t.uniqueMap
                     um == IF IsUniqueColumn(column) /\ ~missing
                           THEN [t.uniqueMap EXCEPT ![colName] =
                                   (IF IsNullish(oldValue) THEN @ ELSE @ \ {oldValue})
                                   \cup (IF IsNullish(newValue) THEN {}
                                         ELSE {newValue})]
                           ELSE t.uniqueMap
                     t1 == [t EXCEPT !.uniqueMap = um]
                     t2 == IF colName \in DOMAIN t.indexes
                           THEN [t1 EXCEPT !.indexes[colName] = ix.idx] ELSE t1
                     t3 == [t2 EXCEPT !.rows[pos] = SetKey(@, colName, newValue)]
                 IN IF missing /\ (~IsNullish(oldValue) \/ ~IsNullish(newValue))
                    THEN [t |-> t, err |-> TypeError]
                    ELSE IF ix.err # "" THEN [t |-> t2, err |-> ix.err]
                    ELSE UpdateApply(t3, setClause, oldValues, pos, j + 1)
         IN Applied(ColumnOf(t, colName),
                    IF colName \in DOMAIN t.indexes
                    THEN UpdateIndexOnUpdate(t.indexes[colName], oldValue,
                                             newValue, pos - 1)
                    ELSE [idx |-> EmptyObj, err |-> ""])

\* update, the loop over rowsToUpdate from its k-th entry on: [t, err, ret]
RECURSIVE UpdateRows(_, _, _, _)
UpdateRows(t, setClause, rowsToUpdate, k) ==
    IF k > Len(rowsToUpdate) THEN [t |-> t, err |-> "", ret |-> k - 1]
    ELSE LET pos == rowsToUpdate[k]
             oldValues == t.rows[pos]
             Updated(v, a) ==
                 IF v # "" THEN [t |-> t, err |-> v, ret |-> k - 1]
                 ELSE IF a.err # "" THEN [t |-> a.t, err |-> a.err, ret |-> k - 1]
                 ELSE UpdateRows(a.t, setClause, rowsToUpdate, k + 1)
         IN Updated(UpdateValidate(t, setClause, oldValues, 1),
                    UpdateApply(t, setClause, oldValues, pos, 1))

\* An update that takes every row of the table for a matching row
UpdateEveryRow(t, setClause, where) ==
    IF where = NoWhere
    THEN [t |-> t, err |-> "UPDATE requires a WHERE clause", ret |-> 0]
    ELSE IF \E j \in DOMAIN setClause : ~HasColumnEntry(t, setClause[j].col)
    THEN [t |-> t, err |-> "Unknown column", ret |-> 0]
    ELSE UpdateRows(t, setClause, Ascending(Len(t.rows)), 1)

\* An update that undoes the rows it changed when a later row fails
UpdateAllOrNothing(t, setClause, where) ==
    LET Rolled(r) == IF r.err # "" THEN [r EXCEPT !.t = t] ELSE r
        Scanned(scan) ==
            IF scan.err # "" THEN [t |-> t, err |-> scan.err, ret |-> 0]
            ELSE Rolled(UpdateRows(t, setClause, scan.hits, 1))
    IN IF where = NoWhere
       THEN [t |-> t, err |-> "UPDATE requires a WHERE clause", ret |-> 0]
       ELSE IF \E j \in DOMAIN setClause : ~HasColumnEntry(t, setClause[j].col)
       THEN [t |-> t, err |-> "Unknown column", ret |-> 0]
       ELSE Scanned(ScanRows(t.rows, where, Ascending(Len(t.rows)), <<>>))

\* table.update(setClause, whereClause): [t, err, ret]; setClause is the
\* sequence of the SET object's entries [col, val]; ret counts the rows
\* updated (on an error: those updated before it)
Update(t, setClause, where) ==
    LET Scanned(scan) ==
            IF scan.err # "" THEN [t |-> t, err |-> scan.err, ret |-> 0]
            ELSE UpdateRows(t, setClause, scan.hits, 1)
    IN IF where = NoWhere
       THEN [t |-> t, err |-> "UPDATE requires a WHERE clause", ret |-> 0]
       ELSE IF \E j \in DOMAIN setClause : ~HasColumnEntry(t, setClause[j].col)
       THEN [t |-> t, err |-> "Unknown column", ret |-> 0]
       ELSE Scanned(ScanRows(t.rows, where, Ascending(Len(t.rows)), <<>>))

\* delete, removing one row from the unique sets
UniqueMapDelete(t, row) ==
    [c \in DOMAIN t.uniqueMap |->
        IF HasColumn(t, c) /\ IsUniqueColumn(ColumnOf(t, c)) /\ ~IsNullish(row[c])
        THEN t.uniqueMap[c] \ {row[c]}
        ELSE t.uniqueMap[c]]

\* delete, the loop over rowIndexesToDelete (descending) from entry k on:
\* [t, err]
RECURSIVE DeleteRows(_, _, _)
DeleteRows(t, rowIndexesToDelete, k) ==
    IF k > Len(rowIndexesToDelete) THEN [t |-> t, err |-> ""]
    ELSE LET pos == rowIndexesToDelete[k]
             row == t.rows[pos]
             Removed(t1, ix) ==
                 IF ix.err # ""
                 THEN [t |-> [t1 EXCEPT !.indexes = ix.indexes], err |-> ix.err]
                 ELSE DeleteRows([t1 EXCEPT !.indexes = ix.indexes,
                                            !.rows = RemoveAt(@, pos)],
                                 rowIndexesToDelete, k + 1)
         IN Removed([t EXCEPT !.uniqueMap = UniqueMapDelete(t, row)],
                    UpdateIndexesOnDelete(t.indexes, t.indexOrder, row, pos - 1, 1))

\* A delete that removes only the last of the matching rows
DeleteLastMatch(t, where) ==
    LET Deleted(scan, d) ==
            IF d.err # "" THEN [t |-> d.t, err |-> d.err, ret |-> 0]
            ELSE [t |-> d.t, err |-> "", ret |-> Len(scan.hits)]
        Scanned(scan) ==
            IF scan.err # "" THEN [t |-> t, err |-> scan.err, ret |-> 0]
            ELSE Deleted(scan, DeleteRows(t, IF scan.hits = <<>> THEN <<>>
                                             ELSE <<scan.hits[1]>>, 1))
    IN IF where = NoWhere
       THEN [t |-> t, err |-> "DELETE requires a WHERE clause", ret |-> 0]
       ELSE Scanned(ScanRows(t.rows, where, Descending(Len(t.rows)), <<>>))

\* table.delete(whereClause): [t, err, ret]
Delete(t, where) ==
    LET Rebuilt(scan, d, rb) ==
            [t |-> [d.t EXCEPT !.indexes = rb.indexes],
             err |-> rb.err,
             ret |-> IF rb.err = "" THEN Len(scan.hits) ELSE 0]
        Deleted(scan, d) ==
            IF d.err # "" THEN [t |-> d.t, err |-> d.err, ret |-> 0]
            ELSE Rebuilt(scan, d,
                         RebuildAllIndexes(d.t.indexes, d.t.indexOrder, d.t.rows))
        Scanned(scan) ==
            IF scan.err # "" THEN [t |-> t, err |-> scan.err, ret |-> 0]
            ELSE Deleted(scan, DeleteRows(t, scan.hits, 1))
    IN IF where = NoWhere
       THEN [t |-> t, err |-> "DELETE requires a WHERE clause", ret |-> 0]
       ELSE Scanned(ScanRows(t.rows, where, Descending(Len(t.rows)), <<>>))

\* ------------------------------------------------------------------------
\* SQLParser: the tokenizer.  A token is a non-empty string; NoToken stands
\* for tokens[i] past the end of the array (undefined).  Positions in a text
\* or token array are 1-based here, 0-based in the source.
\* ------------------------------------------------------------------------
NoToken == ""

\* The characters /\s/ matches, among those a query text of the model holds
WhiteSpace == {" ", "\t", "\n", "\r", "\f"}

\* sql[i]
CharAt(x, i) == IF 1 <= i /\ i <= Len(x) THEN SubSeq(x, i, i) ELSE ""

IsLetter(ch) == IndexOf(UpperLetters, ch) # 0 \/ IndexOf(LowerLetters, ch) # 0

\* token.toUpperCase()
RECURSIVE ToUpperCase(_)
ToUpperCase(x) ==
    IF x = "" THEN ""
    ELSE LET Upper(ch, k) == IF k # 0 THEN UpperLetters[k] ELSE ch
         IN Upper(Head(x), IndexOf(LowerLetters, Head(x))) \o ToUpperCase(Tail(x))

\* sql.trim()
RECURSIVE Trim(_)
Trim(x) ==
    IF x = "" THEN ""
    ELSE IF Head(x) \in WhiteSpace THEN Trim(Tail(x))
    ELSE IF SubSeq(x, Len(x), Len(x)) \in WhiteSpace
    THEN Trim(SubSeq(x, 1, Len(x) - 1))
    ELSE x

\* The body of a quoted string from position i on: [str, i, closed], i the
\* position of the closing quote
RECURSIVE ScanString(_, _, _)
ScanString(sql, i, str) ==
    IF i > Len(sql) THEN [str |-> str, i |-> i, closed |-> FALSE]
    ELSE IF CharAt(sql, i) = "'" THEN [str |-> str, i |-> i, closed |-> TRUE]
    ELSE IF CharAt(sql, i) = "\\" /\ CharAt(sql, i + 1) = "'"
    THEN ScanString(sql, i + 2, str \o "'")
    ELSE ScanString(sql, i + 1, str \o CharAt(sql, i))

\* The end (exclusive) of the run of /[a-zA-Z0-9_.]/ characters from i on
RECURSIVE ScanWord(_, _)
ScanWord(sql, i) ==
    IF i <= Len(sql)
       /\ (IsLetter(CharAt(sql, i)) \/ CharAt(sql, i) \in Digits
           \/ CharAt(sql, i) \in {"_", "."})
    THEN ScanWord(sql, i + 1)
    ELSE i

\* The end (exclusive) of the run of /[0-9.]/ characters from i on
RECURSIVE ScanNumber(_, _)
ScanNumber(sql, i) ==
    IF i <= Len(sql) /\ (CharAt(sql, i) \in Digits \/ CharAt(sql, i) = ".")
    THEN ScanNumber(sql, i + 1)
    ELSE i

\* _tokenize(sql), from position i on with `tokens` already emitted:
\* [tokens, err]
RECURSIVE Tokenize(_, _, _)
Tokenize(sql, i, tokens) ==
    LET char == CharAt(sql, i)
        Quoted(q) ==
            IF ~q.closed THEN [tokens |-> tokens, err |-> "Unterminated string literal"]
            ELSE Tokenize(sql, q.i + 1, Append(tokens, "'" \o q.str \o "'"))
        Word(j) == Tokenize(sql, j, Append(tokens, SubSeq(sql, i, j - 1)))
    IN IF i > Len(sql) THEN [tokens |-> tokens, err |-> ""]
       ELSE IF char \in WhiteSpace THEN Tokenize(sql, i + 1, tokens)
       ELSE IF char = "'" THEN Quoted(ScanString(sql, i + 1, ""))
       ELSE IF i + 1 <= Len(sql) /\ SubSeq(sql, i, i + 1) \in {">=", "<=", "!=", "<>"}
       THEN Tokenize(sql, i + 2, Append(tokens, SubSeq(sql, i, i + 1)))
       ELSE IF char \in {"(", ")", ",", ".", ";", "=", ">", "<", "*"}
       THEN Tokenize(sql, i + 1, Append(tokens, char))
       ELSE IF IsLetter(char) \/ char = "_" THEN Word(ScanWord(sql, i))
       ELSE IF char \in Digits \/ char = "-"
       THEN Word(ScanNumber(sql, IF char = "-" THEN i + 1 ELSE i))
       ELSE [tokens |-> tokens, err |-> "Unexpected character"]

\* tokens[i]
Tok(tokens, i) == IF i \in DOMAIN tokens THEN tokens[i] ELSE NoToken

\* tokens[i]?.toUpperCase()
UpTok(tokens, i) == ToUpperCase(Tok(tokens, i))

\* ------------------------------------------------------------------------
\* SQLParser: values and the WHERE condition
\* ------------------------------------------------------------------------
\* A number with a fraction: its integer part and the digits of the fraction
\* (parseFloat; a fraction of zeros only is the integer)
RECURSIVE DropTrailingZeros(_)
DropTrailingZeros(x) ==
    IF x # "" /\ SubSeq(x, Len(x), Len(x)) = "0"
    THEN DropTrailingZeros(SubSeq(x, 1, Len(x) - 1))
    ELSE x

\* The position of the first '.' of x, 0 when it has none
RECURSIVE DotPos(_, _)
DotPos(x, i) ==
    IF i > Len(x) THEN 0 ELSE IF CharAt(x, i) = "." THEN i ELSE DotPos(x, i + 1)

\* /^-?\d+$/.test(token)
IsIntToken(token) ==
    IsDigits(token) \/ (Len(token) >= 2 /\ Head(token) = "-" /\ IsDigits(Tail(token)))

\* /^-?\d+\.\d+$/.test(token)
IsFloatToken(token) ==
    LET Split(body, dot) ==
            dot # 0 /\ IsDigits(SubSeq(body, 1, dot - 1))
            /\ IsDigits(SubSeq(body, dot + 1, Len(body)))
        Body(body) == Split(body, DotPos(body, 1))
    IN token # "" /\ Body(IF Head(token) = "-" THEN Tail(token) ELSE token)

\* parseInt(token, 10) of an integer token
ParseInt(token) ==
    IF Head(token) = "-" THEN 0 - DigitsToNat(Tail(token)) ELSE DigitsToNat(token)

\* parseFloat(token) of a float token: the number value, whose fraction
\* digits (trailing zeros dropped) are kept in s
ParseFloat(token) ==
    LET Split(dot) ==
            [ty |-> "number",
             n |-> ParseInt(SubSeq(token, 1, dot - 1)),
             s |-> DropTrailingZeros(SubSeq(token, dot + 1, Len(token)))]
    IN Split(DotPos(token, 1))

\* A _parseValue that takes the quotes off before it looks for keywords
\* and numbers
ParseValueUnquoting(token) ==
    LET Value(bare) ==
            IF ToUpperCase(bare) = "NULL" THEN Null
            ELSE IF ToUpperCase(bare) = "TRUE" THEN Bool(TRUE)
            ELSE IF ToUpperCase(bare) = "FALSE" THEN Bool(FALSE)
            ELSE IF bare # "" /\ IsIntToken(bare) THEN Num(ParseInt(bare))
            ELSE IF IsFloatToken(bare) THEN ParseFloat(bare)
            ELSE Str(bare)
    IN IF token = NoToken THEN [v |-> Undefined, err |-> "TypeError"]
       ELSE [v |-> Value(IF Head(token) = "'"
                            /\ SubSeq(token, Len(token), Len(token)) = "'"
                         THEN SubSeq(token, 2, Len(token) - 1) ELSE token),
             err |-> ""]

\* _parseValue(token): [v, err]; token.toUpperCase() of undefined is a
\* TypeError
ParseValue(token) ==
    LET Value(upper) ==
            IF upper = "NULL" THEN Null
            ELSE IF upper = "TRUE" THEN Bool(TRUE)
            ELSE IF upper = "FALSE" THEN Bool(FALSE)
            ELSE IF Head(token) = "'" /\ SubSeq(token, Len(token), Len(token)) = "'"
            THEN Str(SubSeq(token, 2, Len(token) - 1))
            ELSE IF IsIntToken(token) THEN Num(ParseInt(token))
            ELSE IF IsFloatToken(token) THEN ParseFloat(token)
            ELSE Str(token)
    IN IF token = NoToken THEN [v |-> Undefined, err |-> "TypeError"]
       ELSE [v |-> Value(ToUpperCase(token)), err |-> ""]

\* _parseWhereCondition(tokens, startIndex): [where, err]
ParseWhereCondition(tokens, i) ==
    LET column == Tok(tokens, i)
        operator == Tok(tokens, i + 1)
        Cond(op, value) ==
            [where |-> [column |-> column, operator |-> op, value |-> value.v],
             err |-> ""]
    IN IF column = NoToken
       THEN [where |-> NoWhere, err |-> "Expected column name in WHERE clause"]
       ELSE IF operator = NoToken
       THEN [where |-> NoWhere, err |-> "Expected operator in WHERE clause"]
       ELSE IF Tok(tokens, i + 2) = NoToken
       THEN [where |-> NoWhere, err |-> "Expected value in WHERE clause"]
       ELSE Cond(IF UpTok(tokens, i + 1) = "LIKE" THEN "LIKE" ELSE operator,
                 ParseValue(Tok(tokens, i + 2)))


\* ------------------------------------------------------------------------
\* SQLParser: statements.  Each parser returns [ast, err]; err is the
\* message of the Error it throws, "" when it returns the AST.
\* ------------------------------------------------------------------------
NoAst == [type |-> ""]

ParseError(err) == [ast |-> NoAst, err |-> err]

\* join: null
NoJoin == [kind |-> "null", table |-> NoToken, on |-> [kind |-> "null"]]

\* The column list of SELECT: while (i < length && tokens[i] is not FROM)
RECURSIVE SelectColumns(_, _, _)
SelectColumns(tokens, i, columns) ==
    IF i <= Len(tokens) /\ UpTok(tokens, i) # "FROM"
    THEN SelectColumns(tokens, i + 1,
                       IF tokens[i] = "," THEN columns ELSE Append(columns, tokens[i]))
    ELSE [columns |-> columns, i |-> i]

\* The JOIN part of _parseSelect, i the position after the table name:
\* [join, i, err]
ParseJoin(tokens, i) ==
    LET On(k) ==
            IF UpTok(tokens, k) # "ON"
            THEN [join |-> [kind |-> "join", table |-> Tok(tokens, k - 1),
                            on |-> [kind |-> "null"]],
                  i |-> k, err |-> ""]
            ELSE IF Tok(tokens, k + 2) # "="
            THEN [join |-> NoJoin, i |-> k,
                  err |-> "JOIN ON clause only supports = operator"]
            ELSE [join |-> [kind |-> "join", table |-> Tok(tokens, k - 1),
                            on |-> [kind |-> "on", left |-> Tok(tokens, k + 1),
                                    operator |-> "=",
                                    right |-> Tok(tokens, k + 3)]],
                  i |-> k + 4, err |-> ""]
        Join(j) ==
            IF UpTok(tokens, j) # "JOIN" THEN [join |-> NoJoin, i |-> j, err |-> ""]
            ELSE On(j + 2)
    IN IF UpTok(tokens, i) = "INNER" THEN Join(i + 1)
       ELSE IF UpTok(tokens, i) = "JOIN" THEN Join(i)
       ELSE [join |-> NoJoin, i |-> i, err |-> ""]

\* The optional WHERE clause at position i: [where, err]
ParseOptionalWhere(tokens, i) ==
    IF UpTok(tokens, i) = "WHERE" THEN ParseWhereCondition(tokens, i + 1)
    ELSE [where |-> NoWhere, err |-> ""]

\* _parseSelect(tokens)
ParseSelect(tokens) ==
    LET WithWhere(c, jn, w) ==
            IF w.err # "" THEN ParseError(w.err)
            ELSE [ast |-> [type |-> "SELECT", columns |-> c.columns,
                           table |-> Tok(tokens, c.i + 1),
                           where |-> w.where, join |-> jn.join],
                  err |-> ""]
        WithJoin(c, jn) ==
            IF jn.err # "" THEN ParseError(jn.err)
            ELSE WithWhere(c, jn, ParseOptionalWhere(tokens, jn.i))
        WithColumns(c) ==
            IF Len(c.columns) = 0 THEN ParseError("SELECT requires at least one column")
            ELSE IF UpTok(tokens, c.i) # "FROM"
            THEN ParseError("SELECT requires FROM clause")
            ELSE IF Tok(tokens, c.i + 1) = NoToken
            THEN ParseError("Expected table name after FROM")
            ELSE WithJoin(c, ParseJoin(tokens, c.i + 2))
    IN WithColumns(SelectColumns(tokens, 2, <<>>))

\* A parenthesised list of INSERT: while (tokens[i] !== ')' && i < length),
\* commas skipped: [items, i]
RECURSIVE InsertColumns(_, _, _)
InsertColumns(tokens, i, items) ==
    IF Tok(tokens, i) # ")" /\ i <= Len(tokens)
    THEN InsertColumns(tokens, i + 1,
                       IF tokens[i] # "," THEN Append(items, tokens[i]) ELSE items)
    ELSE [items |-> items, i |-> i]

RECURSIVE InsertValues(_, _, _)
InsertValues(tokens, i, items) ==
    IF Tok(tokens, i) # ")" /\ i <= Len(tokens)
    THEN InsertValues(tokens, i + 1,
                      IF tokens[i] # "," THEN Append(items, ParseValue(tokens[i]).v)
                      ELSE items)
    ELSE [items |-> items, i |-> i]

\* _parseInsert(tokens)
ParseInsert(tokens) ==
    LET WithValues(c, v) ==
            IF Tok(tokens, v.i) # ")" THEN ParseError("Expected ) after values list")
            ELSE [ast |-> [type |-> "INSERT", table |-> Tok(tokens, 3),
                           columns |-> c.items, values |-> v.items],
                  err |-> ""]
        Values(c, i) ==
            IF UpTok(tokens, i) # "VALUES" THEN ParseError("INSERT requires VALUES keyword")
            ELSE IF Tok(tokens, i + 1) # "(" THEN ParseError("Expected ( after VALUES")
            ELSE WithValues(c, InsertValues(tokens, i + 2, <<>>))
        WithColumns(c) ==
            IF Tok(tokens, c.i) # ")" THEN ParseError("Expected ) after column list")
            ELSE Values(c, c.i + 1)
    IN IF UpTok(tokens, 2) # "INTO" THEN ParseError("INSERT requires INTO keyword")
       ELSE IF Tok(tokens, 3) = NoToken
       THEN ParseError("Expected table name after INSERT INTO")
       ELSE IF Tok(tokens, 4) = "(" THEN WithColumns(InsertColumns(tokens, 5, <<>>))
       ELSE Values([items |-> <<>>, i |-> 4], 4)

\* ast.set[column] = value on the entries of the SET object, in the order
\* Object.entries lists them; the key __proto__ sets the prototype and
\* makes no entry
SetEntry(set, col, val) ==
    IF col = "__proto__" THEN set
    ELSE IF \E j \in DOMAIN set : set[j].col = col
    THEN [j \in DOMAIN set |-> IF set[j].col = col THEN [col |-> col, val |-> val]
                                ELSE set[j]]
    ELSE Append(set, [col |-> col, val |-> val])

\* The SET assignments of UPDATE: while (i < length && tokens[i] is not
\* WHERE): [set, i, err]
RECURSIVE SetAssignments(_, _, _)
SetAssignments(tokens, i, set) ==
    LET Assigned(value) ==
            IF value.err # "" THEN [set |-> set, i |-> i, err |-> value.err]
            ELSE SetAssignments(tokens,
                                IF Tok(tokens, i + 3) = "," THEN i + 4 ELSE i + 3,
                                SetEntry(set, tokens[i], value.v))
    IN IF i <= Len(tokens) /\ UpTok(tokens, i) # "WHERE"
       THEN IF Tok(tokens, i + 1) # "="
            THEN [set |-> set, i |-> i, err |-> "Expected = after column name"]
            ELSE Assigned(ParseValue(Tok(tokens, i + 2)))
       ELSE [set |-> set, i |-> i, err |-> ""]

\* _parseUpdate(tokens)
ParseUpdate(tokens) ==
    LET WithWhere(a, w) ==
            IF w.err # "" THEN ParseError(w.err)
            ELSE [ast |-> [type |-> "UPDATE", table |-> Tok(tokens, 2),
                           set |-> a.set, where |-> w.where],
                  err |-> ""]
        WithSet(a) ==
            IF a.err # "" THEN ParseError(a.err)
            ELSE WithWhere(a, ParseOptionalWhere(tokens, a.i))
    IN IF Tok(tokens, 2) = NoToken THEN ParseError("Expected table name after UPDATE")
       ELSE IF UpTok(tokens, 3) # "SET" THEN ParseError("UPDATE requires SET keyword")
       ELSE WithSet(SetAssignments(tokens, 4, <<>>))

\* _parseDelete(tokens)
ParseDelete(tokens) ==
    LET WithWhere(w) ==
            IF w.err # "" THEN ParseError(w.err)
            ELSE [ast |-> [type |-> "DELETE", table |-> Tok(tokens, 3),
                           where |-> w.where],
                  err |-> ""]
    IN IF UpTok(tokens, 2) # "FROM" THEN ParseError("DELETE requires FROM keyword")
       ELSE IF Tok(tokens, 3) = NoToken
       THEN ParseError("Expected table name after DELETE FROM")
       ELSE WithWhere(ParseOptionalWhere(tokens, 4))


\* A constraint loop that takes PRIMARY alone for PRIMARY KEY
RECURSIVE ColumnConstraintsLoose(_, _, _)
ColumnConstraintsLoose(tokens, i, def) ==
    LET Constraint(c, next) ==
            IF c = "PRIMARY"
            THEN ColumnConstraintsLoose(tokens, i + 1, [def EXCEPT !.primaryKey = TRUE])
            ELSE IF c = "NOT"
            THEN IF next = "NULL"
                 THEN ColumnConstraintsLoose(tokens, i + 2, [def EXCEPT !.notNull = TRUE])
                 ELSE ColumnConstraintsLoose(tokens, i + 1, def)
            ELSE IF c = "UNIQUE"
            THEN ColumnConstraintsLoose(tokens, i + 1, [def EXCEPT !.unique = TRUE])
            ELSE ColumnConstraintsLoose(tokens, i + 1, def)
    IN IF i <= Len(tokens) /\ tokens[i] # "," /\ tokens[i] # ")"
       THEN Constraint(UpTok(tokens, i), UpTok(tokens, i + 1))
       ELSE [def |-> def, i |-> i]

\* The constraints of one column definition of CREATE TABLE: while
\* (i < length && tokens[i] is neither ',' nor ')'): [def, i]
RECURSIVE ColumnConstraints(_, _, _)
ColumnConstraints(tokens, i, def) ==
    LET Constraint(c, next) ==
            IF c = "PRIMARY"
            THEN IF next = "KEY"
                 THEN ColumnConstraints(tokens, i + 2, [def EXCEPT !.primaryKey = TRUE])
                 ELSE ColumnConstraints(tokens, i + 1, def)
            ELSE IF c = "NOT"
            THEN IF next = "NULL"
                 THEN ColumnConstraints(tokens, i + 2, [def EXCEPT !.notNull = TRUE])
                 ELSE ColumnConstraints(tokens, i + 1, def)
            ELSE IF c = "UNIQUE"
            THEN ColumnConstraints(tokens, i + 1, [def EXCEPT !.unique = TRUE])
            ELSE ColumnConstraints(tokens, i + 1, def)
    IN IF i <= Len(tokens) /\ tokens[i] # "," /\ tokens[i] # ")"
       THEN Constraint(UpTok(tokens, i), UpTok(tokens, i + 1))
       ELSE [def |-> def, i |-> i]

\* The column definitions of CREATE TABLE: while (tokens[i] !== ')' &&
\* i < length): [columns, err]
RECURSIVE ColumnDefs(_, _, _)
ColumnDefs(tokens, i, columns) ==
    LET Defined(c) == ColumnDefs(tokens, c.i, Append(columns, c.def))
        Typed(type) ==
            IF type \notin {"INT", "TEXT", "BOOL"}
            THEN [columns |-> columns, err |-> "Invalid column type"]
            ELSE Defined(ColumnConstraints(tokens, i + 2,
                     [name |-> tokens[i], type |-> type, primaryKey |-> FALSE,
                      notNull |-> FALSE, unique |-> FALSE]))
    IN IF Tok(tokens, i) # ")" /\ i <= Len(tokens)
       THEN IF tokens[i] = "," THEN ColumnDefs(tokens, i + 1, columns)
            ELSE Typed(UpTok(tokens, i + 1))
       ELSE [columns |-> columns, err |-> ""]

\* _parseCreate(tokens)
ParseCreate(tokens) ==
    LET Database(ifNotExists, i) ==
            IF Tok(tokens, i) = NoToken
            THEN ParseError("Expected database name after CREATE DATABASE")
            ELSE [ast |-> [type |-> "CREATE_DATABASE", database |-> Tok(tokens, i),
                           ifNotExists |-> ifNotExists],
                  err |-> ""]
        Table(c) ==
            IF c.err # "" THEN ParseError(c.err)
            ELSE IF Len(c.columns) = 0
            THEN ParseError("CREATE TABLE requires at least one column")
            ELSE [ast |-> [type |-> "CREATE_TABLE", table |-> Tok(tokens, 3),
                           columns |-> c.columns],
                  err |-> ""]
    IN IF UpTok(tokens, 2) = "DATABASE"
       THEN IF UpTok(tokens, 3) = "IF" /\ UpTok(tokens, 4) = "NOT"
               /\ UpTok(tokens, 5) = "EXISTS"
            THEN Database(TRUE, 6) ELSE Database(FALSE, 3)
       ELSE IF UpTok(tokens, 2) # "TABLE" THEN ParseError("Unsupported CREATE target")
       ELSE IF Tok(tokens, 3) = NoToken
       THEN ParseError("Expected table name after CREATE TABLE")
       ELSE IF Tok(tokens, 4) # "(" THEN ParseError("Expected ( after table name")
       ELSE Table(ColumnDefs(tokens, 5, <<>>))

\* _parseDrop(tokens)
ParseDrop(tokens) ==
    LET Database(ifExists, i) ==
            IF Tok(tokens, i) = NoToken
            THEN ParseError("Expected database name after DROP DATABASE")
            ELSE [ast |-> [type |-> "DROP_DATABASE", database |-> Tok(tokens, i),
                           ifExists |-> ifExists],
                  err |-> ""]
    IN IF UpTok(tokens, 2) = "DATABASE"
       THEN IF UpTok(tokens, 3) = "IF" /\ UpTok(tokens, 4) = "EXISTS"
            THEN Database(TRUE, 5) ELSE Database(FALSE, 3)
       ELSE IF UpTok(tokens, 2) # "TABLE" THEN ParseError("Unsupported DROP target")
       ELSE IF Tok(tokens, 3) = NoToken
       THEN ParseError("Expected table name after DROP TABLE")
       ELSE [ast |-> [type |-> "DROP_TABLE", table |-> Tok(tokens, 3)], err |-> ""]

\* _parseUse(tokens)
ParseUse(tokens) ==
    IF Tok(tokens, 2) = NoToken THEN ParseError("Expected database name after USE")
    ELSE [ast |-> [type |-> "USE", database |-> Tok(tokens, 2)], err |-> ""]

\* _parseShow(tokens)
ParseShow(tokens) ==
    IF Tok(tokens, 2) = NoToken
    THEN ParseError("Expected DATABASES or TABLES after SHOW")
    ELSE IF UpTok(tokens, 2) \notin {"DATABASES", "TABLES"}
    THEN ParseError("Unsupported SHOW target")
    ELSE [ast |-> [type |-> "SHOW", target |-> UpTok(tokens, 2)], err |-> ""]

\* parse(sql), sql a string: [ast, err]
Parse(sql) ==
    LET Statement(tokens, firstToken) ==
            CASE firstToken = "SELECT" -> ParseSelect(tokens)
              [] firstToken = "INSERT" -> ParseInsert(tokens)
              [] firstToken = "UPDATE" -> ParseUpdate(tokens)
              [] firstToken = "DELETE" -> ParseDelete(tokens)
              [] firstToken = "CREATE" -> ParseCreate(tokens)
              [] firstToken = "DROP" -> ParseDrop(tokens)
              [] firstToken = "USE" -> ParseUse(tokens)
              [] firstToken = "SHOW" -> ParseShow(tokens)
              [] OTHER -> ParseError("Unknown SQL command")
        Tokenized(r) ==
            IF r.err # "" THEN ParseError(r.err)
            ELSE IF Len(r.tokens) = 0 THEN ParseError("SQL query produced no tokens")
            ELSE Statement(r.tokens, ToUpperCase(r.tokens[1]))
        Trimmed(normalizedSQL) ==
            IF Len(normalizedSQL) = 0 THEN ParseError("SQL query cannot be empty")
            ELSE Tokenized(Tokenize(normalizedSQL, 1, <<>>))
    IN IF sql = "" THEN ParseError("SQL query must be a non-empty string")
       ELSE Trimmed(Trim(sql))


\* ------------------------------------------------------------------------
\* Database: a name and the plain object `tables`, modelled as a function
\* from the names it owns to Table records, with `order` the order
\* Object.keys lists them in.  A lookup of a name the object does not own
\* falls through to Object.prototype (ProtoKeys), as for an index.
\* ------------------------------------------------------------------------
NewDatabase(name) == [name |-> name, tables |-> EmptyObj, order |-> <<>>]

\* new Table(name, columns) with the checks of the constructor: [t, err].
\* columnMap is a plain object, so a column named like an inherited property
\* counts as a duplicate.
NewTableChecked(name, columns) ==
    IF Len(columns) = 0
    THEN [t |-> NewTable(name, columns), err |-> "Table must have at least one column"]
    ELSE IF \E i \in DOMAIN columns :
               \/ columns[i].name \in ProtoKeys
               \/ \E j \in 1..(i - 1) : columns[j].name = columns[i].name
    THEN [t |-> NewTable(name, columns), err |-> "Duplicate column name"]
    ELSE [t |-> NewTable(name, columns), err |-> ""]

\* this.tables[tableName] is truthy
HasTableEntry(db, tableName) ==
    tableName \in DOMAIN db.tables \/ tableName \in ProtoKeys

\* database.createTable(tableName, table): [db, err]
DbCreateTable(db, tableName, table) ==
    IF HasTableEntry(db, tableName) THEN [db |-> db, err |-> "Table already exists"]
    ELSE [db |-> [db EXCEPT !.tables = SetKey(@, tableName, table),
                            !.order = Append(@, tableName)],
          err |-> ""]

\* database.getTable(tableName): [kind, t, err]; kind "proto" is the inherited
\* property returned in place of a Table
DbGetTable(db, tableName) ==
    IF tableName \in DOMAIN db.tables
    THEN [kind |-> "table", t |-> db.tables[tableName], err |-> ""]
    ELSE IF tableName \in ProtoKeys
    THEN [kind |-> "proto", t |-> EmptyObj, err |-> ""]
    ELSE [kind |-> "none", t |-> EmptyObj, err |-> "Table does not exist"]

\* database.dropTable(tableName): [db, err]
DbDropTable(db, tableName) ==
    IF ~HasTableEntry(db, tableName)
    THEN [db |-> db, err |-> "Cannot drop table: Table does not exist"]
    ELSE IF tableName \in DOMAIN db.tables
    THEN [db |-> [db EXCEPT !.tables = DeleteKey(@, tableName),
                            !.order = RemoveAt(@, IndexOf(@, tableName))],
          err |-> ""]
    ELSE [db |-> db, err |-> ""]

\* str.split('.')
RECURSIVE SplitDot(_, _)
SplitDot(x, part) ==
    IF x = "" THEN <<part>>
    ELSE IF Head(x) = "." THEN <<part>> \o SplitDot(Tail(x), "")
    ELSE SplitDot(Tail(x), part \o Head(x))

\* One joined row: the columns of row1 and then of row2 under their
\* qualified names (a later assignment to the same name wins)
JoinedRow(table1Name, row1, table2Name, row2) ==
    LET key1 == {table1Name \o "." \o c : c \in DOMAIN row1}
        key2 == {table2Name \o "." \o c : c \in DOMAIN row2}
    IN [k \in key1 \cup key2 |->
          IF k \in key2
          THEN row2[CHOOSE c \in DOMAIN row2 : table2Name \o "." \o c = k]
          ELSE row1[CHOOSE c \in DOMAIN row1 : table1Name \o "." \o c = k]]

\* The first loop of join: table2Index, a plain object from String(value) to
\* the rows of table 2 holding it, from row i on: [idx, err]
RECURSIVE JoinIndex(_, _, _, _)
JoinIndex(rows2, column2, i, idx) ==
    LET Keyed(key) ==
            IF key \in DOMAIN idx
            THEN JoinIndex(rows2, column2, i + 1,
                           [idx EXCEPT ![key] = Append(@, rows2[i])])
            ELSE IF key \in ProtoKeys THEN [idx |-> idx, err |-> "TypeError"]
            ELSE JoinIndex(rows2, column2, i + 1, SetKey(idx, key, <<rows2[i]>>))
    IN IF i > Len(rows2) THEN [idx |-> idx, err |-> ""]
       ELSE Keyed(ToKey(Get(rows2[i], column2)))

\* The second loop of join, from row i of table 1 on: [rows, err]
RECURSIVE JoinRows(_, _, _, _, _, _, _)
JoinRows(table1Name, rows1, column1, table2Name, idx, i, results) ==
    LET Matched(key) ==
            IF key \in DOMAIN idx
            THEN JoinRows(table1Name, rows1, column1, table2Name, idx, i + 1,
                          results \o [k \in DOMAIN idx[key] |->
                              JoinedRow(table1Name, rows1[i], table2Name, idx[key][k])])
            ELSE IF key \in ProtoKeys THEN [rows |-> results, err |-> "TypeError"]
            ELSE JoinRows(table1Name, rows1, column1, table2Name, idx, i + 1, results)
    IN IF i > Len(rows1) THEN [rows |-> results, err |-> ""]
       ELSE Matched(ToKey(Get(rows1[i], column1)))

\* table.columnMap[column] is truthy

\* database.join(table1Name, table2Name, column1, column2): [rows, err];
\* column1 and column2 are the strings the column expressions convert to
DbJoin(db, table1Name, table2Name, column1, column2) ==
    LET Indexed(t1, ix) ==
            IF ix.err # "" THEN [rows |-> <<>>, err |-> ix.err]
            ELSE JoinRows(table1Name, t1.t.rows, column1, table2Name, ix.idx, 1, <<>>)
        Tables(t1, t2) ==
            IF t1.err # "" THEN [rows |-> <<>>, err |-> t1.err]
            ELSE IF t2.err # "" THEN [rows |-> <<>>, err |-> t2.err]
            ELSE IF t1.kind = "proto" THEN [rows |-> <<>>, err |-> "TypeError"]
            ELSE IF ~HasColumnEntry(t1.t, column1)
            THEN [rows |-> <<>>, err |-> "Column does not exist"]
            ELSE IF t2.kind = "proto" THEN [rows |-> <<>>, err |-> "TypeError"]
            ELSE IF ~HasColumnEntry(t2.t, column2)
            THEN [rows |-> <<>>, err |-> "Column does not exist"]
            ELSE Indexed(t1, JoinIndex(t2.t.rows, column2, 1, EmptyObj))
    IN Tables(DbGetTable(db, table1Name), DbGetTable(db, table2Name))


\* ------------------------------------------------------------------------
\* DatabaseManager and QueryEngine.  The engine state is one record:
\*   manager   whether the engine was built on a DatabaseManager
\*   databases the Database objects by name (manager.databases, or the one
\*             Database the engine was built on), order: Object.keys order
\*   current   manager.currentDatabaseName ("" for null)
\*   database  the engine's this.database: null, the Database of a name, or
\*             the inherited property a name of Object.prototype selects
\*   persist   manager.persistEnabled, disk: the content of the data file
\* A handler returns [eng, env, err]: the state it leaves, the envelope it
\* returns and the message of the Error it throws ("" when it returns).
\* ------------------------------------------------------------------------
NoDatabase == [kind |-> "null", name |-> ""]

DbRef(kind, name) == [kind |-> kind, name |-> name]

\* No data file in the data directory
NoData == [kind |-> "none"]

\* new DatabaseManager({persist: false}): the default database created and
\* selected; new QueryEngine(manager)
ManagerEngine ==
    [manager |-> TRUE,
     databases |-> [n \in {"default"} |-> NewDatabase("default")],
     order |-> <<"default">>,
     current |-> "default",
     database |-> DbRef("db", "default"),
     persist |-> FALSE,
     disk |-> NoData]

\* new QueryEngine(new Database(name))
DatabaseEngine(name) ==
    [manager |-> FALSE,
     databases |-> [n \in {name} |-> NewDatabase(name)],
     order |-> <<name>>,
     current |-> "",
     database |-> DbRef("db", name),
     persist |-> FALSE,
     disk |-> NoData]

\* The success envelope
Envelope(data, rowsAffected, message) ==
    [success |-> TRUE, data |-> data, rowsAffected |-> rowsAffected,
     message |-> message]

\* The envelope the catch blocks of execute and executeAST build
Failure(error) ==
    [success |-> FALSE, error |-> error, data |-> Null, rowsAffected |-> 0]

NoEnvelope == [success |-> FALSE]

Returns(eng, env) == [eng |-> eng, env |-> env, err |-> ""]

Throws(eng, err) == [eng |-> eng, env |-> NoEnvelope, err |-> err]

\* this.databases[name] is truthy
HasDatabaseEntry(eng, name) == name \in DOMAIN eng.databases \/ name \in ProtoKeys

\* manager.databaseExists(name): name in this.databases
DatabaseExists(eng, name) == HasDatabaseEntry(eng, name)

\* /^[a-zA-Z_][a-zA-Z0-9_]*$/.test(name)
IsValidDatabaseName(name) ==
    /\ name # ""
    /\ IsLetter(Head(name)) \/ Head(name) = "_"
    /\ \A i \in 1..Len(name) :
          IsLetter(CharAt(name, i)) \/ CharAt(name, i) \in Digits
          \/ CharAt(name, i) = "_"

\* { ...row } through JSON.stringify: a property holding undefined is left out
SerializeRow(row) == [c \in {k \in DOMAIN row : row[k] # Undefined} |-> row[c]]

\* storage._serializeTable(table)
SerializeTable(t) ==
    [name |-> t.name,
     columns |-> [i \in DOMAIN t.columns |->
                     [name |-> t.columns[i].name,
                      type |-> t.columns[i].type,
                      primaryKey |-> t.columns[i].primaryKey,
                      notNull |-> t.columns[i].notNull,
                      unique |-> t.columns[i].unique]],
     rows |-> [i \in DOMAIN t.rows |-> SerializeRow(t.rows[i])]]

\* storage._serializeDatabase(db); order is the order of Object.entries
SerializeDatabase(db) ==
    [name |-> db.name,
     tables |-> [n \in DOMAIN db.tables |-> SerializeTable(db.tables[n])],
     order |-> db.order]

\* storage._serializeManager(manager), the content of the data file
SerializeManager(eng) ==
    [kind |-> "data",
     currentDatabase |-> eng.current,
     databases |-> [n \in DOMAIN eng.databases |->
                       SerializeDatabase(eng.databases[n])],
     order |-> eng.order]

\* manager._save()
Save(eng) ==
    IF eng.persist THEN [eng EXCEPT !.disk = SerializeManager(eng)] ELSE eng

\* _loadFromDisk, table.insert(row) for the saved rows from row i on: [t, err]
RECURSIVE LoadRows(_, _, _)
LoadRows(t, rows, i) ==
    LET Inserted(r) == IF r.err # "" THEN [t |-> r.t, err |-> r.err]
                       ELSE LoadRows(r.t, rows, i + 1)
    IN IF i > Len(rows) THEN [t |-> t, err |-> ""]
       ELSE Inserted(Insert(t, rows[i]))

\* _loadFromDisk, one saved table rebuilt: [t, err]
LoadTable(tableName, tableData) ==
    LET Built(n) == IF n.err # "" THEN n ELSE LoadRows(n.t, tableData.rows, 1)
    IN Built(NewTableChecked(
                 tableName,
                 [i \in DOMAIN tableData.columns |->
                     Column(tableData.columns[i].name, tableData.columns[i].type,
                            [primaryKey |-> tableData.columns[i].primaryKey,
                             notNull |-> tableData.columns[i].notNull,
                             unique |-> tableData.columns[i].unique])]))

\* _loadFromDisk, the tables of one saved database from table k on added to
\* db: [db, err]
RECURSIVE LoadTables(_, _, _)
LoadTables(db, dbData, k) ==
    LET Created(c) == IF c.err # "" THEN c ELSE LoadTables(c.db, dbData, k + 1)
        Loaded(l) == IF l.err # "" THEN [db |-> db, err |-> l.err]
                     ELSE Created(DbCreateTable(db, dbData.order[k], l.t))
    IN IF k > Len(dbData.order) THEN [db |-> db, err |-> ""]
       ELSE Loaded(LoadTable(dbData.order[k], dbData.tables[dbData.order[k]]))

\* _loadFromDisk, the saved databases from database k on added to the
\* manager: [eng, err]
RECURSIVE LoadDatabases(_, _, _)
LoadDatabases(eng, data, k) ==
    LET Loaded(l) ==
            IF l.err # "" THEN [eng |-> eng, err |-> l.err]
            ELSE LoadDatabases(
                     [eng EXCEPT !.databases = SetKey(@, data.order[k], l.db),
                                 !.order = IF data.order[k] \in DOMAIN eng.databases
                                           THEN @ ELSE Append(@, data.order[k])],
                     data, k + 1)
    IN IF k > Len(data.order) THEN [eng |-> eng, err |-> ""]
       ELSE Loaded(LoadTables(NewDatabase(data.order[k]),
                              data.databases[data.order[k]], 1))

\* manager._loadFromDisk(): [eng, err]; the saved selection is restored when
\* this.databases holds something under its name
LoadFromDisk(eng) ==
    LET Restored(l) ==
            IF l.err # "" THEN l
            ELSE IF eng.disk.currentDatabase # ""
                    /\ (eng.disk.currentDatabase \in DOMAIN l.eng.databases
                        \/ eng.disk.currentDatabase \in ProtoKeys)
            THEN [eng |-> [l.eng EXCEPT !.current = eng.disk.currentDatabase],
                  err |-> ""]
            ELSE l
    IN IF eng.disk = NoData THEN [eng |-> eng, err |-> ""]
       ELSE Restored(LoadDatabases(eng, eng.disk, 1))

\* manager.createDatabase(name): [eng, err]
CreateDatabase(eng, name) ==
    IF name = "" THEN [eng |-> eng, err |-> "Database name must be a non-empty string"]
    ELSE IF ~IsValidDatabaseName(name)
    THEN [eng |-> eng, err |-> "Invalid database name"]
    ELSE IF HasDatabaseEntry(eng, name)
    THEN [eng |-> eng, err |-> "Database already exists"]
    ELSE [eng |-> Save([eng EXCEPT !.databases = SetKey(@, name, NewDatabase(name)),
                                   !.order = Append(@, name)]),
          err |-> ""]

\* manager.getCurrentDatabase()
GetCurrentDatabase(eng) ==
    IF eng.current = "" THEN NoDatabase
    ELSE IF eng.current \in DOMAIN eng.databases THEN DbRef("db", eng.current)
    ELSE DbRef("proto", eng.current)

\* manager.use(name): [eng, err]
Use(eng, name) ==
    IF ~HasDatabaseEntry(eng, name) THEN [eng |-> eng, err |-> "Database does not exist"]
    ELSE [eng |-> [eng EXCEPT !.current = name], err |-> ""]

\* manager.dropDatabase(name): [eng, err]
DropDatabase(eng, name) ==
    LET cleared == IF eng.current = name THEN [eng EXCEPT !.current = ""] ELSE eng
    IN IF ~HasDatabaseEntry(eng, name)
       THEN [eng |-> eng, err |-> "Database does not exist"]
       ELSE IF name \in DOMAIN eng.databases
       THEN [eng |-> Save([cleared EXCEPT !.databases = DeleteKey(@, name),
                                          !.order = RemoveAt(@, IndexOf(@, name))]),
             err |-> ""]
       ELSE [eng |-> Save(cleared), err |-> ""]

\* The name property of this.database: a Database's name, a function's name
\* for an inherited method, undefined ("") for Object.prototype itself
DatabaseName(ref) ==
    IF ref.kind = "db" THEN ref.name
    ELSE IF ref.name = "constructor" THEN "Object"
    ELSE IF ref.name = "__proto__" THEN ""
    ELSE ref.name

\* _requireManager(): the message of the Error, "" when there is a manager
RequireManager(eng) ==
    IF ~eng.manager THEN "Database operations require a DatabaseManager" ELSE ""

\* _requireDatabase()
RequireDatabase(eng) ==
    IF eng.database.kind = "null" THEN "No database selected" ELSE ""

\* this.database.getTable(name) of the engine: [kind, t, err]; a method call
\* on an inherited property in place of a Database is a TypeError
GetTable(eng, tableName) ==
    IF eng.database.kind = "proto"
    THEN [kind |-> "none", t |-> EmptyObj, err |-> "TypeError"]
    ELSE DbGetTable(eng.databases[eng.database.name], tableName)

\* The engine state with the table `tableName` of this.database replaced
PutTable(eng, tableName, t) ==
    [eng EXCEPT !.databases[eng.database.name].tables[tableName] = t]


\* _evaluateCondition(value, operator, compareValue): [b, err]
EvaluateCondition(value, operator, compareValue) ==
    CASE operator \in {"=", "=="} -> [b |-> value = compareValue, err |-> ""]
      [] operator \in {"!=", "<>"} -> [b |-> value # compareValue, err |-> ""]
      [] operator = ">" -> [b |-> JsLess(compareValue, value), err |-> ""]
      [] operator = "<" -> [b |-> JsLess(value, compareValue), err |-> ""]
      [] operator = ">=" -> [b |-> JsLessEq(compareValue, value), err |-> ""]
      [] operator = "<=" -> [b |-> JsLessEq(value, compareValue), err |-> ""]
      [] operator = "LIKE" -> IF value.ty # "string" THEN [b |-> FALSE, err |-> ""]
                              ELSE LikeTest(value.s, compareValue)
      [] OTHER -> [b |-> FALSE, err |-> ""]

\* The value a joined row is filtered on: row[col], else the column under
\* the left table's qualified name, else (??) under the joined table's
JoinWhereValue(row, table, joinTable, colName) ==
    IF Get(row, colName) # Undefined THEN Get(row, colName)
    ELSE IF ~IsNullish(Get(row, table \o "." \o colName))
    THEN Get(row, table \o "." \o colName)
    ELSE Get(row, joinTable \o "." \o colName)

\* rows.filter(...) of _executeSelectWithJoin from row i on: [rows, err]
RECURSIVE JoinFilter(_, _, _, _, _)
JoinFilter(rows, table, joinTable, where, i) ==
    LET Rest(m, rest) ==
            IF m.err # "" THEN [rows |-> <<>>, err |-> m.err]
            ELSE IF rest.err # "" THEN rest
            ELSE [rows |-> (IF m.b THEN <<rows[i]>> ELSE <<>>) \o rest.rows,
                  err |-> ""]
    IN IF i > Len(rows) THEN [rows |-> <<>>, err |-> ""]
       ELSE Rest(EvaluateCondition(
                     JoinWhereValue(rows[i], table, joinTable, where.column),
                     where.operator, where.value),
                 JoinFilter(rows, table, joinTable, where, i + 1))

\* rows.map(...) of _executeSelectWithJoin: a requested column a row does
\* not hold is given the whole row
JoinProject(rows, columns) ==
    [k \in DOMAIN rows |->
        [c \in Range(columns) |->
            IF Get(rows[k], c) # Undefined THEN Get(rows[k], c) ELSE rows[k]]]

\* parts[k] used as a name: the string undefined converts to when absent
Part(parts, k) == IF k \in DOMAIN parts THEN parts[k] ELSE "undefined"

\* _executeSelectWithJoin(ast)
ExecuteSelectWithJoin(eng, ast) ==
    LET joinTable == IF ast.join.table = NoToken THEN "undefined" ELSE ast.join.table
        Projected(rows) ==
            Returns(eng, Envelope(rows, Len(rows), "Selected row(s) with join"))
        Filtered(f) ==
            IF f.err # "" THEN Throws(eng, f.err)
            ELSE IF "*" \in Range(ast.columns) THEN Projected(f.rows)
            ELSE Projected(JoinProject(f.rows, ast.columns))
        Joined(j) ==
            IF j.err # "" THEN Throws(eng, j.err)
            ELSE IF ast.where = NoWhere THEN Filtered(j)
            ELSE Filtered(JoinFilter(j.rows, ast.table, joinTable, ast.where, 1))
        Sides(leftParts, rightParts) ==
            IF eng.database.kind = "proto" THEN Throws(eng, "TypeError")
            ELSE IF leftParts[1] = ast.table
            THEN Joined(DbJoin(eng.databases[eng.database.name],
                               leftParts[1], rightParts[1],
                               Part(leftParts, 2), Part(rightParts, 2)))
            ELSE Joined(DbJoin(eng.databases[eng.database.name],
                               rightParts[1], leftParts[1],
                               Part(rightParts, 2), Part(leftParts, 2)))
    IN IF RequireDatabase(eng) # "" THEN Throws(eng, RequireDatabase(eng))
       ELSE IF ast.join.on.kind = "null" THEN Throws(eng, "TypeError")
       ELSE IF ast.join.on.left = NoToken \/ ast.join.on.right = NoToken
       THEN Throws(eng, "TypeError")
       ELSE Sides(SplitDot(ast.join.on.left, ""), SplitDot(ast.join.on.right, ""))

\* _executeSelect(ast)
ExecuteSelect(eng, ast) ==
    LET Selected(r) ==
            IF r.err # "" THEN Throws(eng, r.err)
            ELSE Returns(eng, Envelope(r.rows, Len(r.rows), "Selected row(s)"))
        Found(g) ==
            IF g.err # "" THEN Throws(eng, g.err)
            ELSE IF g.kind = "proto" THEN Throws(eng, "TypeError")
            ELSE Selected(Select(g.t, ast.columns, ast.where))
    IN IF RequireDatabase(eng) # "" THEN Throws(eng, RequireDatabase(eng))
       ELSE IF ast.join.kind # "null" THEN ExecuteSelectWithJoin(eng, ast)
       ELSE Found(GetTable(eng, ast.table))

\* rowData[names[i]] = values[i] for every i: a later entry of a name wins
RowDataOf(names, values) ==
    [c \in Range(names) |->
        values[CHOOSE i \in DOMAIN names :
                   names[i] = c /\ \A j \in DOMAIN names : names[j] = c => j <= i]]

\* An insert without the count checks: a target column without a value gets
\* undefined, a value without a target column is dropped
ExecuteInsertUnchecked(eng, ast) ==
    LET Padded(names) ==
            [i \in DOMAIN names |->
                IF i \in DOMAIN ast.values THEN ast.values[i] ELSE Undefined]
        Inserted(r) ==
            IF r.err # "" THEN Throws(PutTable(eng, ast.table, r.t), r.err)
            ELSE Returns(PutTable(eng, ast.table, r.t),
                         Envelope(r.ret, 1, "Inserted 1 row"))
        Named(g, names) ==
            IF g.kind = "proto" THEN Throws(eng, "TypeError")
            ELSE Inserted(Insert(g.t, RowDataOf(names, Padded(names))))
        Found(g) ==
            IF g.err # "" THEN Throws(eng, g.err)
            ELSE IF Len(ast.columns) > 0 THEN Named(g, ast.columns)
            ELSE IF g.kind = "proto" THEN Throws(eng, "TypeError")
            ELSE Named(g, ColumnNames(g.t))
    IN IF RequireDatabase(eng) # "" THEN Throws(eng, RequireDatabase(eng))
       ELSE Found(GetTable(eng, ast.table))

\* _executeInsert(ast)
ExecuteInsert(eng, ast) ==
    LET Inserted(r) ==
            IF r.err # "" THEN Throws(PutTable(eng, ast.table, r.t), r.err)
            ELSE Returns(PutTable(eng, ast.table, r.t),
                         Envelope(r.ret, 1, "Inserted 1 row"))
        Named(g, names) ==
            IF Len(names) # Len(ast.values)
            THEN Throws(eng, IF Len(ast.columns) > 0
                             THEN "Column count doesn't match value count"
                             ELSE "Value count doesn't match column count")
            ELSE IF g.kind = "proto" THEN Throws(eng, "TypeError")
            ELSE Inserted(Insert(g.t, RowDataOf(names, ast.values)))
        Found(g) ==
            IF g.err # "" THEN Throws(eng, g.err)
            ELSE IF Len(ast.columns) > 0 THEN Named(g, ast.columns)
            ELSE IF g.kind = "proto" THEN Throws(eng, "TypeError")
            ELSE Named(g, ColumnNames(g.t))
    IN IF RequireDatabase(eng) # "" THEN Throws(eng, RequireDatabase(eng))
       ELSE Found(GetTable(eng, ast.table))

\* _executeUpdate(ast)
ExecuteUpdate(eng, ast) ==
    LET Updated(r) ==
            IF r.err # "" THEN Throws(PutTable(eng, ast.table, r.t), r.err)
            ELSE Returns(PutTable(eng, ast.table, r.t),
                         Envelope(Null, r.ret, "Updated row(s)"))
        Found(g) ==
            IF g.err # "" THEN Throws(eng, g.err)
            ELSE IF ast.where = NoWhere
            THEN Throws(eng, "UPDATE without WHERE clause is not allowed for safety")
            ELSE IF g.kind = "proto" THEN Throws(eng, "TypeError")
            ELSE Updated(Update(g.t, ast.set, ast.where))
    IN IF RequireDatabase(eng) # "" THEN Throws(eng, RequireDatabase(eng))
       ELSE Found(GetTable(eng, ast.table))

\* _executeDelete(ast) taking a missing WHERE clause to mean every row
ExecuteDeleteWhereOptional(eng, ast) ==
    LET Deleted(r) ==
            IF r.err # "" THEN Throws(PutTable(eng, ast.table, r.t), r.err)
            ELSE Returns(PutTable(eng, ast.table, r.t),
                         Envelope(Null, r.ret, "Deleted row(s)"))
        Found(g) ==
            IF g.err # "" THEN Throws(eng, g.err)
            ELSE IF g.kind = "proto" THEN Throws(eng, "TypeError")
            ELSE IF ast.where = NoWhere THEN Deleted(Truncate(g.t))
            ELSE Deleted(Delete(g.t, ast.where))
    IN IF RequireDatabase(eng) # "" THEN Throws(eng, RequireDatabase(eng))
       ELSE Found(GetTable(eng, ast.table))

\* _executeDelete(ast)
ExecuteDelete(eng, ast) ==
    LET Deleted(r) ==
            IF r.err # "" THEN Throws(PutTable(eng, ast.table, r.t), r.err)
            ELSE Returns(PutTable(eng, ast.table, r.t),
                         Envelope(Null, r.ret, "Deleted row(s)"))
        Found(g) ==
            IF g.err # "" THEN Throws(eng, g.err)
            ELSE IF ast.where = NoWhere
            THEN Throws(eng, "DELETE without WHERE clause is not allowed for safety")
            ELSE IF g.kind = "proto" THEN Throws(eng, "TypeError")
            ELSE Deleted(Delete(g.t, ast.where))
    IN IF RequireDatabase(eng) # "" THEN Throws(eng, RequireDatabase(eng))
       ELSE Found(GetTable(eng, ast.table))

\* new Column(colDef.name, colDef.type, {...}) with the checks of the
\* constructor: the message of the Error, "" when the column is built
ColumnError(colDef) ==
    IF colDef.name = NoToken THEN "Column name must be a non-empty string"
    ELSE IF colDef.type \notin DATA_TYPES THEN "Invalid column type"
    ELSE ""

\* ast.columns.map(colDef => new Column(...)): [columns, err]
ColumnsOf(colDefs) ==
    IF \E i \in DOMAIN colDefs : ColumnError(colDefs[i]) # ""
    THEN [columns |-> <<>>,
          err |-> ColumnError(colDefs[CHOOSE i \in DOMAIN colDefs :
                      /\ ColumnError(colDefs[i]) # ""
                      /\ \A j \in 1..(i - 1) : ColumnError(colDefs[j]) = ""])]
    ELSE [columns |-> [i \in DOMAIN colDefs |->
                          Column(colDefs[i].name, colDefs[i].type,
                                 [primaryKey |-> colDefs[i].primaryKey,
                                  notNull |-> colDefs[i].notNull,
                                  unique |-> colDefs[i].unique])],
          err |-> ""]

\* The engine state with this.database (a Database) replaced by db
PutDatabase(eng, db) == [eng EXCEPT !.databases[eng.database.name] = db]

\* _executeCreateTable(ast)
ExecuteCreateTable(eng, ast) ==
    LET Created(c) ==
            IF c.err # "" THEN Throws(eng, c.err)
            ELSE Returns(PutDatabase(eng, c.db),
                         Envelope(Null, 0, "Table created successfully"))
        Built(n) ==
            IF n.err # "" THEN Throws(eng, n.err)
            ELSE IF eng.database.kind = "proto" THEN Throws(eng, "TypeError")
            ELSE Created(DbCreateTable(eng.databases[eng.database.name],
                                       ast.table, n.t))
        Columns(c) ==
            IF c.err # "" THEN Throws(eng, c.err)
            ELSE IF ast.table = NoToken
            THEN Throws(eng, "Table name must be a non-empty string")
            ELSE Built(NewTableChecked(ast.table, c.columns))
    IN IF RequireDatabase(eng) # "" THEN Throws(eng, RequireDatabase(eng))
       ELSE Columns(ColumnsOf(ast.columns))

\* _executeDropTable(ast)
ExecuteDropTable(eng, ast) ==
    LET Dropped(d) ==
            IF d.err # "" THEN Throws(eng, d.err)
            ELSE Returns(PutDatabase(eng, d.db),
                         Envelope(Null, 0, "Table dropped successfully"))
    IN IF RequireDatabase(eng) # "" THEN Throws(eng, RequireDatabase(eng))
       ELSE IF eng.database.kind = "proto" THEN Throws(eng, "TypeError")
       ELSE Dropped(DbDropTable(eng.databases[eng.database.name], ast.table))

\* _executeCreateDatabase(ast)
ExecuteCreateDatabase(eng, ast) ==
    LET Created(c) ==
            IF c.err # "" THEN Throws(eng, c.err)
            ELSE Returns(c.eng, Envelope(Null, 0, "Database created successfully"))
    IN IF RequireManager(eng) # "" THEN Throws(eng, RequireManager(eng))
       ELSE IF ast.ifNotExists /\ DatabaseExists(eng, ast.database)
       THEN Returns(eng, Envelope(Null, 0, "Database already exists"))
       ELSE Created(CreateDatabase(eng, ast.database))

\* _executeDropDatabase(ast)
ExecuteDropDatabase(eng, ast) ==
    LET Dropped(d) ==
            IF d.err # "" THEN Throws(eng, d.err)
            ELSE Returns(IF eng.database.kind # "null"
                            /\ DatabaseName(eng.database) = ast.database
                         THEN [d.eng EXCEPT !.database = NoDatabase]
                         ELSE d.eng,
                         Envelope(Null, 0, "Database dropped successfully"))
    IN IF RequireManager(eng) # "" THEN Throws(eng, RequireManager(eng))
       ELSE IF ast.ifExists /\ ~DatabaseExists(eng, ast.database)
       THEN Returns(eng, Envelope(Null, 0, "Database does not exist"))
       ELSE Dropped(DropDatabase(eng, ast.database))

\* _executeUse(ast)
ExecuteUse(eng, ast) ==
    LET Used(u) ==
            IF u.err # "" THEN Throws(eng, u.err)
            ELSE Returns([u.eng EXCEPT !.database = GetCurrentDatabase(u.eng)],
                         Envelope(Null, 0, "Database changed"))
    IN IF RequireManager(eng) # "" THEN Throws(eng, RequireManager(eng))
       ELSE Used(Use(eng, ast.database))

\* A SHOW that clears the selection as it lists
ExecuteShowDeselecting(eng, ast) ==
    IF ast.target = "DATABASES"
    THEN IF RequireManager(eng) # "" THEN Throws(eng, RequireManager(eng))
         ELSE Returns([eng EXCEPT !.current = ""],
                      Envelope([i \in DOMAIN eng.order |->
                                   [Database |-> Str(eng.order[i])]],
                               Len(eng.order), "Found database(s)"))
    ELSE IF ast.target = "TABLES"
    THEN IF RequireDatabase(eng) # "" THEN Throws(eng, RequireDatabase(eng))
         ELSE IF eng.database.kind = "proto" THEN Throws(eng, "TypeError")
         ELSE LET tables == eng.databases[eng.database.name].order
              IN Returns([eng EXCEPT !.current = ""],
                         Envelope([i \in DOMAIN tables |->
                                      [Table |-> Str(tables[i])]],
                                  Len(tables), "Found table(s)"))
    ELSE Throws(eng, "Unknown SHOW target")

\* _executeShow(ast)
ExecuteShow(eng, ast) ==
    IF ast.target = "DATABASES"
    THEN IF RequireManager(eng) # "" THEN Throws(eng, RequireManager(eng))
         ELSE Returns(eng, Envelope([i \in DOMAIN eng.order |->
                                        [Database |-> Str(eng.order[i])]],
                                    Len(eng.order), "Found database(s)"))
    ELSE IF ast.target = "TABLES"
    THEN IF RequireDatabase(eng) # "" THEN Throws(eng, RequireDatabase(eng))
         ELSE IF eng.database.kind = "proto" THEN Throws(eng, "TypeError")
         ELSE LET tables == eng.databases[eng.database.name].order
              IN Returns(eng, Envelope([i \in DOMAIN tables |->
                                           [Table |-> Str(tables[i])]],
                                       Len(tables), "Found table(s)"))
    ELSE Throws(eng, "Unknown SHOW target")

\* The switch of executeAST
Dispatch(eng, ast) ==
    CASE ast.type = "SELECT" -> ExecuteSelect(eng, ast)
      [] ast.type = "INSERT" -> ExecuteInsert(eng, ast)
      [] ast.type = "UPDATE" -> ExecuteUpdate(eng, ast)
      [] ast.type = "DELETE" -> ExecuteDelete(eng, ast)
      [] ast.type = "CREATE_TABLE" -> ExecuteCreateTable(eng, ast)
      [] ast.type = "DROP_TABLE" -> ExecuteDropTable(eng, ast)
      [] ast.type = "CREATE_DATABASE" -> ExecuteCreateDatabase(eng, ast)
      [] ast.type = "DROP_DATABASE" -> ExecuteDropDatabase(eng, ast)
      [] ast.type = "USE" -> ExecuteUse(eng, ast)
      [] ast.type = "SHOW" -> ExecuteShow(eng, ast)
      [] OTHER -> Throws(eng, "Unknown query type")

\* What a call of the engine leaves: the state, the envelope returned, and
\* the message of the Error that escaped the call ("" when it returned)
Returned(eng, env) == [eng |-> eng, env |-> env, raised |-> ""]

Raised(eng, err) == [eng |-> eng, env |-> NoEnvelope, raised |-> err]

\* executeAST(ast): the handler's Error is caught into a failure envelope
ExecuteAST(eng, ast) ==
    LET Caught(h) == IF h.err # "" THEN Returned(h.eng, Failure(h.err))
                     ELSE Returned(h.eng, h.env)
    IN Caught(Dispatch(eng, ast))

\* execute(sql) from the parser's outcome p on, with the parse outside the
\* try block
ExecuteParsedUnguarded(eng, p) ==
    IF p.err # "" THEN Raised(eng, p.err) ELSE ExecuteAST(eng, p.ast)

\* execute(sql) from the parser's outcome p on: an Error of the parser is
\* caught into a failure envelope, an AST goes to executeAST
ExecuteParsed(eng, p) ==
    IF p.err # "" THEN Returned(eng, Failure(p.err)) ELSE ExecuteAST(eng, p.ast)

\* execute(sql)
Execute(eng, sql) == ExecuteParsed(eng, Parse(sql))

\* ------------------------------------------------------------------------
\* Row objects a caller holds.  What a caller got from select is
\*   rows  the content of each row object it holds
\*   refs  for each, the 1-based position of the stored row it is the same
\*         object as, 0 when it is an object of its own
\* ------------------------------------------------------------------------
\* resultRows of select: the 1-based positions of the stored rows selected,
\* in order: [pos, err]
ResultPositions(t, where) ==
    LET Indexed(r) == [pos |-> [k \in DOMAIN r.pos |-> r.pos[k] + 1], err |-> r.err]
        Scanned(r) == [pos |-> r.hits, err |-> r.err]
    IN IF where = NoWhere THEN [pos |-> Ascending(Len(t.rows)), err |-> ""]
       ELSE IF where.operator = "=" /\ where.column \in DOMAIN t.indexes
       THEN Indexed(RowIndexes(t, where))
       ELSE Scanned(ScanRows(t.rows, where, Ascending(Len(t.rows)), <<>>))

\* select returning resultRows itself, with no projection
SelectStored(t, columnNames, where) ==
    LET Kept(s, r) ==
            IF s.err # "" THEN [rows |-> <<>>, refs |-> <<>>, err |-> s.err]
            ELSE [rows |-> [k \in DOMAIN r.pos |-> RowAt(t.rows, r.pos[k] - 1)],
                  refs |-> r.pos, err |-> ""]
    IN Kept(Select(t, columnNames, where), ResultPositions(t, where))

\* select as the caller receives it: every row of the result is the object
\* literal projectedRow built for it
SelectObjects(t, columnNames, where) ==
    LET Kept(s) ==
            IF s.err # "" THEN [rows |-> <<>>, refs |-> <<>>, err |-> s.err]
            ELSE [rows |-> s.rows, refs |-> [k \in DOMAIN s.rows |-> 0],
                  err |-> ""]
    IN Kept(Select(t, columnNames, where))

\* update writes row[colName] = newValue into the stored row object: a held
\* row that is a stored row shows the stored row's new content
HeldAfterUpdate(h, t1) ==
    [h EXCEPT !.rows = [k \in DOMAIN h.rows |->
                           IF h.refs[k] = 0 THEN h.rows[k]
                           ELSE RowAt(t1.rows, h.refs[k] - 1)]]

\* delete splices stored rows out of this.rows: the first n positions of
\* rowIndexesToDelete, n the number of rows the table lost
RemovedPositions(t, t1, where) ==
    LET Lost(hits, n) == {hits[k] : k \in 1..n}
    IN IF where = NoWhere THEN {}
       ELSE Lost(ScanRows(t.rows, where, Descending(Len(t.rows)), <<>>).hits,
                 Len(t.rows) - Len(t1.rows))

\* A held row that is a stored row follows it to its new position; a row
\* spliced out is no longer a stored row
HeldAfterDelete(h, removed) ==
    [h EXCEPT !.refs = [k \in DOMAIN h.refs |->
                           IF h.refs[k] = 0 \/ h.refs[k] \in removed THEN 0
                           ELSE h.refs[k]
                                - Cardinality({p \in removed : p < h.refs[k]})]]

\* truncate replaces this.rows by a new array
HeldAfterTruncate(h) == [h EXCEPT !.refs = [k \in DOMAIN h.refs |-> 0]]

\* The caller's heldRow[colName] = value on the k-th row it holds: the table
\* it leaves
TableAfterMutation(t, h, k, colName, value) ==
    IF h.refs[k] = 0 THEN t
    ELSE [t EXCEPT !.rows[h.refs[k]] = SetKey(@, colName, value)]

\* ------------------------------------------------------------------------
\* Index: the standalone hash index.  data is a plain object from property
\* keys to arrays of row indexes (0-based); a method gives [ix, err].
\* ------------------------------------------------------------------------
NewIndex(columnName) ==
    [columnName |-> columnName, type |-> "HASH", data |-> EmptyObj,
     entryCount |-> 0]

\* index.add(value, rowIndex); this.data[key] of a key the object only
\* inherits is truthy and has no push
HashAdd(ix, value, rowIndex) ==
    LET Add(key) ==
            IF key \in DOMAIN ix.data
            THEN [ix |-> [ix EXCEPT !.data[key] = Append(@, rowIndex),
                                    !.entryCount = @ + 1],
                  err |-> ""]
            ELSE IF key \in ProtoKeys THEN [ix |-> ix, err |-> "TypeError"]
            ELSE [ix |-> [ix EXCEPT !.data = SetKey(@, key, <<rowIndex>>),
                                    !.entryCount = @ + 1],
                  err |-> ""]
    IN IF IsNullish(value) THEN [ix |-> ix, err |-> ""] ELSE Add(ToKey(value))

\* index.find(value): [ret, err]; the spread of an inherited property (a
\* function, or Object.prototype) raises
HashFind(ix, value) ==
    LET Find(key) ==
            IF key \in DOMAIN ix.data THEN [ret |-> ix.data[key], err |-> ""]
            ELSE IF key \in ProtoKeys THEN [ret |-> <<>>, err |-> "TypeError"]
            ELSE [ret |-> <<>>, err |-> ""]
    IN IF IsNullish(value) THEN [ret |-> <<>>, err |-> ""] ELSE Find(ToKey(value))

\* index.has(value): key !== null && key in this.data
HashHas(ix, value) ==
    /\ ~IsNullish(value)
    /\ (ToKey(value) \in DOMAIN ix.data \/ ToKey(value) \in ProtoKeys)

\* index.remove(value, rowIndex)
HashRemove(ix, value, rowIndex) ==
    LET Splice(key, position) ==
            IF position = 0 THEN [ix |-> ix, err |-> ""]
            ELSE [ix |-> [ix EXCEPT
                            !.data = IF Len(ix.data[key]) = 1
                                     THEN DeleteKey(@, key)
                                     ELSE [@ EXCEPT ![key] = RemoveAt(@, position)],
                            !.entryCount = @ - 1],
                  err |-> ""]
        Remove(key) ==
            IF key \in DOMAIN ix.data
            THEN Splice(key, IndexOf(ix.data[key], rowIndex))
            ELSE IF key \in ProtoKeys THEN [ix |-> ix, err |-> "TypeError"]
            ELSE [ix |-> ix, err |-> ""]
    IN IF IsNullish(value) THEN [ix |-> ix, err |-> ""] ELSE Remove(ToKey(value))

\* index.update(oldValue, newValue, rowIndex)
HashUpdate(ix, oldValue, newValue, rowIndex) ==
    LET Removed(r) == IF r.err # "" THEN r ELSE HashAdd(r.ix, newValue, rowIndex)
    IN Removed(HashRemove(ix, oldValue, rowIndex))

\* index.clear()
HashClear(ix) == [ix EXCEPT !.data = EmptyObj, !.entryCount = 0]

\* index.rebuild(rows), the loop from rows[i - 1] on
RECURSIVE HashRebuildLoop(_, _, _)
HashRebuildLoop(ix, rows, i) ==
    LET Added(r) == IF r.err # "" THEN r ELSE HashRebuildLoop(r.ix, rows, i + 1)
    IN IF i > Len(rows) THEN [ix |-> ix, err |-> ""]
       ELSE Added(HashAdd(ix, Get(rows[i], ix.columnName), i - 1))

\* index.rebuild(rows)
HashRebuild(ix, rows) == HashRebuildLoop(HashClear(ix), rows, 1)

\* ------------------------------------------------------------------------
\* Spec: one table driven through its public methods
\*   users (id TEXT PRIMARY KEY, email TEXT UNIQUE, grp TEXT)
\* ------------------------------------------------------------------------
\* No call of a parser or comparison function yet
NoProbe == [fn |-> "", in |-> <<>>, out |-> <<>>]

VARIABLES
    table,  \* the Table object
    last,   \* the last call: its method, error ("" for none) and row count
    sinceFault,  \* 0 until a call ends in a TypeError; then 1 + the calls since
    engine,  \* the QueryEngine with the manager and databases it reaches
    result,  \* the last call of the engine: its query and what came back
    held,    \* the rows a caller holds from an earlier select
    index,   \* the standalone Index object
    probe    \* the last call of a parser or comparison function: [fn, in, out]

vars == <<table, last, sinceFault, engine, result, held, index, probe>>

\* No call of the engine yet
NoResult == [call |-> "new", sql |-> "", env |-> NoEnvelope, raised |-> ""]

\* No rows held
NoHeld == [rows |-> <<>>, refs |-> <<>>]

NoOptions == [primaryKey |-> FALSE, notNull |-> FALSE, unique |-> FALSE]

UsersColumns ==
    <<Column("id", "TEXT", [NoOptions EXCEPT !.primaryKey = TRUE]),
      Column("email", "TEXT", [NoOptions EXCEPT !.unique = TRUE]),
      Column("grp", "TEXT", NoOptions)>>

\* Arguments of the calls
ValidRowData ==
    {[id |-> i, email |-> e, grp |-> g] :
        i \in {Str("a"), Str("b"), Str("constructor")},
        e \in {Str("x"), Null},
        g \in {Str("x"), Str("y")}}

RowDataInputs ==
    ValidRowData
    \cup {[id |-> Null, email |-> Null, grp |-> Str("x")],
          [id |-> Num(1), email |-> Null, grp |-> Str("x")],
          [id |-> Str("a"), email |-> Bool(TRUE), grp |-> Str("x")]}

Where(column, operator, value) ==
    [column |-> column, operator |-> operator, value |-> value]

PkWhereInputs ==
    {Where("id", "=", Str("a")), Where("id", "=", Str("b")),
     Where("id", "=", Str("constructor"))}

WhereInputs ==
    PkWhereInputs
    \cup {Where("id", "!=", Str("a")), Where("grp", "=", Str("x")),
          Where("grp", ">", Str("x")), Where("id", "LIKE", Str("c%")),
          Where("id", "~", Str("a")), NoWhere}

Assign(col, val) == [col |-> col, val |-> val]

SetInputs ==
    {<<Assign("id", Str("a"))>>, <<Assign("id", Str("b"))>>,
     <<Assign("id", Str("constructor"))>>, <<Assign("id", Null)>>,
     <<Assign("grp", Str("x"))>>, <<Assign("grp", Num(1))>>,
     <<Assign("email", Str("x"))>>, <<Assign("email", Null)>>,
     <<Assign("grp", Str("y")), Assign("id", Str("b"))>>,
     <<Assign("zz", Str("a"))>>}

UpdateInputs ==
    (SetInputs \X {Where("id", "=", Str("a")), Where("grp", "=", Str("x")),
                   Where("id", "!=", Str("a"))})
    \cup {<<<<Assign("id", Str("b"))>>, NoWhere>>,
          <<<<Assign("grp", Str("x"))>>, Where("id", "~", Str("a"))>>}

IndexColumnInputs == {"id", "grp", "zz"}

SelectInputs ==
    ({<<"*">>} \X WhereInputs)
    \cup {<<<<"grp">>, Where("grp", "=", Str("x"))>>,
          <<<<"id">>, Where("id", "=", Str("b"))>>,
          <<<<"id", "zz">>, NoWhere>>}

\* The outcome of a call: its method, its error ("" for none) and the number
\* of rows it reports (0 when it raised the error)
Call(op, err, count) == [op |-> op, err |-> err, count |-> count]

Init ==
    /\ table = NewTable("users", UsersColumns)
    /\ last = Call("new", "", 0)
    /\ sinceFault = 0
    /\ engine = ManagerEngine
    /\ result = NoResult
    /\ held = NoHeld
    /\ index = NewIndex("email")
    /\ probe = NoProbe

\* A call ends: the table it leaves and its error.  The model follows a
\* run for MaxAfterFault more calls after the first call that ends in a
\* TypeError.
Finish(op, t, err, count) ==
    /\ sinceFault <= MaxAfterFault
    /\ table' = t
    /\ last' = Call(op, err, IF err = "" THEN count ELSE 0)
    /\ sinceFault' = IF sinceFault > 0 THEN sinceFault + 1
                     ELSE IF err = TypeError THEN 1 ELSE 0
    /\ UNCHANGED <<engine, result, held, index, probe>>

\* The stored row (its 1-based position) that the object insert returns is:
\* insert returns the row object it pushed; 0 when it raised
InsertedRow(r) == IF r.err = "" THEN Len(r.t.rows) ELSE 0

\* A caller's obj[colName] = value on an object handed back by the table:
\* the table afterwards, where stored is the position of the stored row the
\* object is, 0 for an object of its own
WriteReturned(t, stored, colName, value) ==
    IF stored = 0 THEN t
    ELSE [t EXCEPT !.rows[stored] = SetKey(@, colName, value)]

DoInsert ==
    \E rowData \in RowDataInputs :
        LET Done(r) == Finish("insert", r.t, r.err, 1)
        IN /\ Len(table.rows) < MaxRows
           /\ Done(Insert(table, rowData))

DoUpdate ==
    \E in \in UpdateInputs :
        LET Done(r) == Finish("update", r.t, r.err, r.ret)
        IN Done(Update(table, in[1], in[2]))

DoDelete ==
    \E where \in WhereInputs :
        LET Done(r) == Finish("delete", r.t, r.err, r.ret)
        IN Done(Delete(table, where))

DoTruncate ==
    LET Done(r) == Finish("truncate", r.t, r.err, r.ret)
    IN Done(Truncate(table))

DoCreateIndex ==
    \E columnName \in IndexColumnInputs :
        LET Done(r) == Finish("createIndex", r.t, r.err, 0)
        IN Done(CreateIndex(table, columnName))

DoDropIndex ==
    \E columnName \in IndexColumnInputs :
        LET Done(r) == Finish("dropIndex", r.t, r.err, 0)
        IN Done(DropIndex(table, columnName))

DoSelect ==
    \E in \in SelectInputs :
        LET Done(r) == Finish("select", table, r.err, Len(r.rows))
        IN Done(Select(table, in[1], in[2]))

LookupInputs == {Str("a"), Str("b"), Str("constructor"), Num(1), Null}

DoFindByPrimaryKey ==
    \E pkValue \in LookupInputs :
        LET Done(r) == Finish("findByPrimaryKey", table, r.err,
                              IF r.found THEN 1 ELSE 0)
        IN Done(FindByPrimaryKey(table, pkValue))

Next ==
    \/ DoInsert
    \/ DoUpdate
    \/ DoDelete
    \/ DoTruncate
    \/ DoCreateIndex
    \/ DoDropIndex
    \/ DoSelect
    \/ DoFindByPrimaryKey

Spec == Init /\ [][Next]_vars

\* ------------------------------------------------------------------------
\* SpecEngine: a QueryEngine driven through execute and executeAST
\* ------------------------------------------------------------------------
\* Statements without a WHERE clause
WhereLessInputs ==
    {"UPDATE t SET n = 2", "update t set id = 'b', n = 2", "DELETE FROM t",
     "delete from t", "DELETE FROM u", "UPDATE constructor SET n = 2"}

QueryInputs ==
    WhereLessInputs
    \cup {"CREATE TABLE t (id TEXT PRIMARY KEY, n INT)",
          "CREATE TABLE t (id INT)",
          "CREATE TABLE u (id BLOB)",
          "INSERT INTO t VALUES ('a', 1)",
          "INSERT INTO t (n, id) VALUES (1, 'b')",
          "INSERT INTO t (id) VALUES ('constructor')",
          "INSERT INTO t VALUES ('a')",
          "INSERT INTO t (id, n) VALUES ('a')",
          "INSERT INTO t VALUES (1, 1)",
          "INSERT INTO t VALUES ('c', 1.5)",
          "UPDATE t SET n = 2 WHERE id = 'a'",
          "UPDATE t SET n = 2;",
          "UPDATE t SET id = 'a' WHERE n = 1",
          "DELETE FROM t WHERE id = 'a'",
          "DELETE FROM t WHERE n < 2",
          "SELECT n FROM t WHERE id = 'a' AND n = 2",
          "UPDATE t SET n = 2 WHERE id = 'a' AND n = 5",
          "DELETE FROM t WHERE id = 'a' OR n = 1",
          "SELECT * FROM t",
          "SELECT n FROM t WHERE id = 'a'",
          "SELECT * FROM t WHERE id = 'constructor'",
          "SELECT x FROM t",
          "SELECT * FROM t WHERE id LIKE 1",
          "SELECT * FROM t WHERE id IS 'a'",
          "DELETE FROM t WHERE n IN 1",
          "SELECT * FROM t JOIN t ON t.id = t.id WHERE n IN 1",
          "SELECT * FROM t JOIN t ON t.id = t.id WHERE n >= 1",
          "SELECT * FROM t JOIN u",
          "DROP TABLE t",
          "DROP TABLE constructor",
          "CREATE DATABASE shop",
          "CREATE DATABASE IF NOT EXISTS shop",
          "USE shop",
          "USE default",
          "USE constructor",
          "DROP DATABASE shop",
          "DROP DATABASE default",
          "DROP DATABASE constructor",
          "DROP DATABASE IF EXISTS shop",
          "SHOW TABLES",
          "SHOW DATABASES",
          "SHOW INDEXES",
          "",
          "EXPLAIN t",
          "SELECT 'a",
          "SELECT * FROM t WHERE id # 1",
          "SELECT * FROM t WHERE id",
          "INSERT INTO t",
          "UPDATE t WHERE id = 'a'"}

\* ASTs built by hand for executeAST
AstInputs ==
    {[type |-> "MERGE"],
     [type |-> "SHOW", target |-> "TABLES"],
     [type |-> "DELETE", table |-> "t", where |-> NoWhere],
     [type |-> "SELECT", columns |-> <<"*">>, table |-> "t", where |-> NoWhere,
      join |-> [kind |-> "join", table |-> "t", on |-> [kind |-> "null"]]]}

\* database.getStats(): name, tableCount and the per-table statistics; the
\* object has no totalRows property
DbGetStats(db) ==
    [name |-> Str(db.name),
     tableCount |-> Num(Len(db.order)),
     tables |-> [n \in DOMAIN db.tables |->
                    [rowCount |-> Len(db.tables[n].rows),
                     columnCount |-> Len(db.tables[n].columns),
                     columns |-> ColumnNames(db.tables[n])]]]

\* a += b of two numbers [nan, n], b the number a value converts to
PlusAssign(a, b) ==
    IF a.nan \/ b.nan THEN [nan |-> TRUE, n |-> 0]
    ELSE [nan |-> FALSE, n |-> a.n + b.n]

\* manager.getStats(), the forEach over the database names from the k-th on
RECURSIVE GetStatsLoop(_, _, _, _)
GetStatsLoop(eng, k, totalTables, totalRows) ==
    LET Counted(dbStats) ==
            GetStatsLoop(eng, k + 1,
                         PlusAssign(totalTables, ToNumber(Get(dbStats, "tableCount"))),
                         PlusAssign(totalRows, ToNumber(Get(dbStats, "totalRows"))))
    IN IF k > Len(eng.order)
       THEN [totalTables |-> totalTables, totalRows |-> totalRows]
       ELSE Counted(DbGetStats(eng.databases[eng.order[k]]))

\* manager.getStats(): databaseCount, totalTables and totalRows as numbers
\* [nan, n]
GetStats(eng) ==
    LET Summed(t) ==
            [databaseCount |-> [nan |-> FALSE, n |-> Len(eng.order)],
             totalTables |-> t.totalTables,
             totalRows |-> t.totalRows,
             currentDatabase |-> eng.current]
    IN Summed(GetStatsLoop(eng, 1, [nan |-> FALSE, n |-> 0],
                           [nan |-> FALSE, n |-> 0]))

\* The rows held by the tables of the database `db`, from table k of its
\* order on
RECURSIVE RowCount(_, _)
RowCount(db, k) ==
    IF k > Len(db.order) THEN 0
    ELSE Len(db.tables[db.order[k]].rows) + RowCount(db, k + 1)

\* The rows held by the databases from database k of the manager's order on
RECURSIVE TotalRows(_, _)
TotalRows(eng, k) ==
    IF k > Len(eng.order) THEN 0
    ELSE RowCount(eng.databases[eng.order[k]], 1) + TotalRows(eng, k + 1)

\* The databases hold at most MaxEngineRows rows between them
WithinRows(eng) == TotalRows(eng, 1) <= MaxEngineRows

InitEngine ==
    /\ table = NewTable("users", UsersColumns)
    /\ last = Call("new", "", 0)
    /\ sinceFault = 0
    /\ engine \in {ManagerEngine, DatabaseEngine("app")}
    /\ result = NoResult
    /\ held = NoHeld
    /\ index = NewIndex("email")
    /\ probe = NoProbe

\* A call of the engine ends
Answer(call, sql, r) ==
    /\ WithinRows(r.eng)
    /\ engine' = r.eng
    /\ result' = [call |-> call, sql |-> sql, env |-> r.env, raised |-> r.raised]
    /\ UNCHANGED <<table, last, sinceFault, held, index, probe>>

\* Parse(sql) of every query text: the parser keeps nothing between calls
ParsedQueries == [sql \in QueryInputs |-> Parse(sql)]

DoExecute ==
    \E sql \in QueryInputs :
        LET Done(r) == Answer("execute", sql, r)
        IN Done(ExecuteParsed(engine, ParsedQueries[sql]))

DoExecuteAST ==
    \E ast \in AstInputs :
        LET Done(r) == Answer("executeAST", "", r)
        IN Done(ExecuteAST(engine, ast))

NextEngine ==
    \/ DoExecute
    \/ DoExecuteAST

SpecEngine == InitEngine /\ [][NextEngine]_vars

\* --------------------------------------------------------------------------
\* A manager that persists to a data directory, and the engine on top of it
\* --------------------------------------------------------------------------

\* new DatabaseManager() on a data directory holding `disk`, then
\* new QueryEngine(manager): [eng, err]. Data on disk is loaded; without data
\* the default database is created (and saved) and then selected.
StartManager(disk) ==
    LET fresh == [manager |-> TRUE, databases |-> EmptyObj, order |-> <<>>,
                  current |-> "", database |-> NoDatabase,
                  persist |-> TRUE, disk |-> disk]
        Engine(r) == [eng |-> [r.eng EXCEPT !.database = GetCurrentDatabase(r.eng)],
                      err |-> r.err]
        Selected(c) == IF c.err # "" THEN c ELSE Use(c.eng, "default")
    IN IF disk # NoData THEN Engine(LoadFromDisk(fresh))
       ELSE Engine(Selected(CreateDatabase(fresh, "default")))

\* A data file that was not written by this version of storage.save: the
\* primary key column of t is recorded without its implied constraints
SeedData ==
    [kind |-> "data",
     currentDatabase |-> "default",
     databases |->
         [d \in {"default"} |->
             [name |-> "default",
              tables |->
                  [n \in {"t"} |->
                      [name |-> "t",
                       columns |-> <<[name |-> "id", type |-> "TEXT",
                                      primaryKey |-> TRUE, notNull |-> FALSE,
                                      unique |-> FALSE],
                                     [name |-> "n", type |-> "INT",
                                      primaryKey |-> FALSE, notNull |-> FALSE,
                                      unique |-> FALSE]>>,
                       rows |-> <<[c \in {"id", "n"} |->
                                      IF c = "id" THEN Str("a") ELSE Num(1)]>>]],
              order |-> <<"t">>]],
     order |-> <<"default">>]

PersistQueryInputs ==
    {"CREATE TABLE t (id TEXT PRIMARY KEY, n INT)",
     "INSERT INTO t VALUES ('a', 1)",
     "INSERT INTO t (id) VALUES ('b')",
     "INSERT INTO t VALUES ('constructor', 1)",
     "UPDATE t SET n = 2 WHERE id = 'a'",
     "DELETE FROM t WHERE id = 'a'",
     "DROP TABLE t",
     "CREATE DATABASE shop",
     "DROP DATABASE shop",
     "USE shop",
     "USE default"}

\* Parse(sql) of every query text of PersistQueryInputs
PersistParsed == [sql \in PersistQueryInputs |-> Parse(sql)]

InitPersist ==
    /\ table = NewTable("users", UsersColumns)
    /\ last = Call("new", "", 0)
    /\ sinceFault = 0
    /\ engine \in {StartManager(NoData).eng, StartManager(SeedData).eng}
    /\ result = NoResult
    /\ held = NoHeld
    /\ index = NewIndex("email")
    /\ probe = NoProbe

PersistExecute ==
    \E sql \in PersistQueryInputs :
        LET Done(r) == Answer("execute", sql, r)
        IN Done(ExecuteParsed(engine, PersistParsed[sql]))

\* The process ends and a new manager and engine are started on the same
\* data directory
Restart ==
    LET Started(s) ==
            /\ s.err = ""
            /\ engine' = s.eng
            /\ result' = [call |-> "start", sql |-> "", env |-> NoEnvelope,
                          raised |-> ""]
            /\ UNCHANGED <<table, last, sinceFault, held, index, probe>>
    IN Started(StartManager(engine.disk))

NextPersist ==
    \/ PersistExecute
    \/ Restart

SpecPersist == InitPersist /\ [][NextPersist]_vars

\* --------------------------------------------------------------------------
\* Two tables with columns of different types, joined and filtered
\* --------------------------------------------------------------------------

JoinSelects ==
    {"SELECT * FROM a JOIN b ON a.x = b.y",
     "SELECT * FROM a JOIN b ON a.x = b.z"}

TypedWhereSelects ==
    {"SELECT * FROM b WHERE y = 1",
     "SELECT * FROM b WHERE y = '1'",
     "SELECT * FROM b WHERE z = '1'",
     "SELECT * FROM b WHERE z = 1",
     "SELECT * FROM b WHERE y != 1",
     "SELECT * FROM b WHERE z <> '1'",
     "SELECT * FROM b WHERE y < 2",
     "SELECT * FROM b WHERE y > '1'",
     "SELECT * FROM b WHERE z <= NULL",
     "SELECT * FROM b WHERE z >= 1",
     "SELECT * FROM b WHERE z < 2",
     "SELECT * FROM a JOIN b ON a.x = b.z WHERE y <= 1"}

ProjectedJoinSelects ==
    {"SELECT a.x, b.y FROM a JOIN b ON a.x = b.z",
     "SELECT x, y FROM a JOIN b ON a.x = b.z"}

\* A schema that marks two columns PRIMARY KEY, and a row for it
TwoKeyInputs ==
    {"CREATE TABLE c (p INT PRIMARY KEY, q INT PRIMARY KEY)",
     "INSERT INTO c VALUES (1, 2)"}

JoinQueryInputs ==
    JoinSelects \cup TypedWhereSelects \cup ProjectedJoinSelects
    \cup {"CREATE TABLE a (x INT)",
          "CREATE TABLE b (y TEXT PRIMARY KEY, z INT)",
          "INSERT INTO a VALUES (1)",
          "INSERT INTO a VALUES (NULL)",
          "INSERT INTO b VALUES ('1', 1)",
          "INSERT INTO b VALUES ('2', NULL)"}
    \cup TwoKeyInputs

\* Parse(sql) of every query text of JoinQueryInputs
JoinParsed == [sql \in JoinQueryInputs |-> Parse(sql)]

InitJoin ==
    /\ table = NewTable("users", UsersColumns)
    /\ last = Call("new", "", 0)
    /\ sinceFault = 0
    /\ engine = ManagerEngine
    /\ result = NoResult
    /\ held = NoHeld
    /\ index = NewIndex("email")
    /\ probe = NoProbe

JoinExecute ==
    \E sql \in JoinQueryInputs :
        LET Done(r) ==
                /\ TotalRows(r.eng, 1) <= MaxJoinRows
                /\ engine' = r.eng
                /\ result' = [call |-> "execute", sql |-> sql, env |-> r.env,
                              raised |-> r.raised]
                /\ UNCHANGED <<table, last, sinceFault, held, index, probe>>
        IN Done(ExecuteParsed(engine, JoinParsed[sql]))

NextJoin == JoinExecute

SpecJoin == InitJoin /\ [][NextJoin]_vars

\* ------------------------------------------------------------------------
\* SpecHeld: a caller keeps the rows of a select while the table goes on
\* changing, and writes into the rows it keeps
\* ------------------------------------------------------------------------
HeldRowInputs ==
    {[id |-> Str("a"), email |-> Null, grp |-> Str("x")],
     [id |-> Str("b"), email |-> Str("x"), grp |-> Str("x")]}

HeldSelectInputs ==
    {<<<<"*">>, NoWhere>>,
     <<<<"*">>, Where("id", "=", Str("a"))>>,
     <<<<"grp", "id">>, Where("grp", "=", Str("x"))>>,
     <<<<"id">>, NoWhere>>}

HeldUpdateInputs ==
    {<<<<Assign("grp", Str("y"))>>, Where("id", "=", Str("a"))>>,
     <<<<Assign("grp", Str("x"))>>, Where("grp", "=", Str("y"))>>,
     <<<<Assign("id", Str("c"))>>, Where("id", "=", Str("a"))>>}

HeldDeleteInputs == {Where("id", "=", Str("a")), Where("grp", "=", Str("x"))}

MutationInputs == {Assign("grp", Str("z")), Assign("id", Str("b"))}

InitHeld ==
    /\ table = NewTable("users", UsersColumns)
    /\ last = Call("new", "", 0)
    /\ sinceFault = 0
    /\ engine = ManagerEngine
    /\ result = NoResult
    /\ held = NoHeld
    /\ index = NewIndex("email")
    /\ probe = NoProbe

\* A call ends: the table and the held rows it leaves
Leave(op, t, h, err, count) ==
    /\ table' = t
    /\ held' = h
    /\ last' = Call(op, err, IF err = "" THEN count ELSE 0)
    /\ UNCHANGED <<sinceFault, engine, result, index, probe>>

KeepSelect ==
    \E in \in HeldSelectInputs :
        LET Done(r) == Leave("select", table, [rows |-> r.rows, refs |-> r.refs],
                             r.err, Len(r.rows))
        IN Done(SelectObjects(table, in[1], in[2]))

HeldInsert ==
    \E rowData \in HeldRowInputs :
        LET Done(r) == Leave("insert", r.t, held, r.err, 1)
        IN /\ Len(table.rows) < MaxHeldRows
           /\ Done(Insert(table, rowData))

HeldUpdate ==
    \E in \in HeldUpdateInputs :
        LET Done(r) == Leave("update", r.t, HeldAfterUpdate(held, r.t), r.err, r.ret)
        IN Done(Update(table, in[1], in[2]))

HeldDelete ==
    \E where \in HeldDeleteInputs :
        LET Done(r) ==
                Leave("delete", r.t,
                      HeldAfterDelete(held, RemovedPositions(table, r.t, where)),
                      r.err, r.ret)
        IN Done(Delete(table, where))

HeldTruncate ==
    LET Done(r) == Leave("truncate", r.t, HeldAfterTruncate(held), r.err, r.ret)
    IN Done(Truncate(table))

MutateHeld ==
    \E k \in DOMAIN held.rows, a \in MutationInputs :
        /\ a.col \in DOMAIN held.rows[k]
        /\ Leave("mutate", TableAfterMutation(table, held, k, a.col, a.val),
                 [held EXCEPT !.rows[k][a.col] = a.val], "", 1)

NextHeld ==
    \/ KeepSelect
    \/ HeldInsert
    \/ HeldUpdate
    \/ HeldDelete
    \/ HeldTruncate
    \/ MutateHeld

SpecHeld == InitHeld /\ [][NextHeld]_vars

\* ------------------------------------------------------------------------
\* SpecIndex: one Index driven through add, remove, update, clear and
\* rebuild
\* ------------------------------------------------------------------------
MaxIndexEntries == 3

IndexValueInputs ==
    {Str("a"), Str("1"), Num(1), Str("constructor"), Null, Undefined}

IndexPositionInputs == 0..1

IndexRowsInputs ==
    {<<>>,
     <<[email |-> Str("a")], [email |-> Null], [email |-> Str("a")]>>,
     <<[email |-> Num(1)], [id |-> Str("a")]>>,
     <<[email |-> Str("a")], [email |-> Str("constructor")]>>}

InitIndex ==
    /\ table = NewTable("users", UsersColumns)
    /\ last = Call("new", "", 0)
    /\ sinceFault = 0
    /\ engine = ManagerEngine
    /\ result = NoResult
    /\ held = NoHeld
    /\ index = NewIndex("email")
    /\ probe = NoProbe

\* A call of the index ends: the index it leaves and its error
IndexDone(op, r) ==
    /\ r.ix.entryCount <= MaxIndexEntries
    /\ index' = r.ix
    /\ last' = Call(op, r.err, 0)
    /\ UNCHANGED <<table, sinceFault, engine, result, held, probe>>

IndexAdd ==
    \E value \in IndexValueInputs, rowIndex \in IndexPositionInputs :
        IndexDone("add", HashAdd(index, value, rowIndex))

IndexRemoveCall ==
    \E value \in IndexValueInputs, rowIndex \in IndexPositionInputs :
        IndexDone("remove", HashRemove(index, value, rowIndex))

IndexUpdate ==
    \E oldValue \in IndexValueInputs, newValue \in IndexValueInputs,
       rowIndex \in IndexPositionInputs :
        IndexDone("update", HashUpdate(index, oldValue, newValue, rowIndex))

IndexClear == IndexDone("clear", [ix |-> HashClear(index), err |-> ""])

IndexRebuild ==
    \E rows \in IndexRowsInputs :
        IndexDone("rebuild", HashRebuild(index, rows))

NextIndex ==
    \/ IndexAdd
    \/ IndexRemoveCall
    \/ IndexUpdate
    \/ IndexClear
    \/ IndexRebuild

SpecIndex == InitIndex /\ [][NextIndex]_vars

\* ------------------------------------------------------------------------
\* SpecProbe: the comparison and parser functions called one at a time on
\* arguments drawn from small sets
\* ------------------------------------------------------------------------
LikeValueInputs ==
    {Str("abc"), Str("ABC"), Str("axc"), Str("a.c"), Str("ab"), Str(""),
     Num(1), Bool(TRUE), Null, Undefined}

LikePatternInputs ==
    {Str("abc"), Str("a%"), Str("%c"), Str("a_c"), Str("A%C"), Str("%"),
     Str("_"), Str("a.c"), Str("%b%"), Str("")}

InitProbe ==
    /\ table = NewTable("users", UsersColumns)
    /\ last = Call("new", "", 0)
    /\ sinceFault = 0
    /\ engine = ManagerEngine
    /\ result = NoResult
    /\ held = NoHeld
    /\ index = NewIndex("email")
    /\ probe = NoProbe

\* A call ends: the function, its arguments and what came back
Probed(fn, in, out) ==
    /\ probe' = [fn |-> fn, in |-> in, out |-> out]
    /\ UNCHANGED <<table, last, sinceFault, engine, result, held, index>>

\* table._rowMatchesWhere(row, {column, operator: 'LIKE', value})
ProbeRowLike ==
    \E value \in LikeValueInputs, pattern \in LikePatternInputs :
        Probed("_rowMatchesWhere", <<value, pattern>>,
               RowMatchesWhere([grp |-> value], Where("grp", "LIKE", pattern)))

\* engine._evaluateCondition(value, 'LIKE', compareValue)
ProbeJoinLike ==
    \E value \in LikeValueInputs, pattern \in LikePatternInputs :
        Probed("_evaluateCondition", <<value, pattern>>,
               EvaluateCondition(value, "LIKE", pattern))

\* Query texts with number-like parts
NumberTextInputs ==
    {"5", "-5", "1.5", "-1.50", "007", "-", "5.", "1.2.3", "-.5", "5..",
     "- 5", "(5)", "5,6", "n=5", "n = -5;", "x5", "5x", "a - b"}

\* parser._tokenize(sql)
ProbeTokenize ==
    \E sql \in NumberTextInputs :
        Probed("_tokenize", sql, Tokenize(sql, 1, <<>>))

\* Value tokens, as the tokenizer emits them
ValueTokenInputs ==
    {"NULL", "null", "Null", "TRUE", "true", "FALSE", "fAlSe",
     "'NULL'", "'true'", "'FALSE'", "'42'", "'-1.5'", "''", "'a b'", "'it's'",
     "42", "-7", "007", "0", "1.5", "-1.50", "5.", "1.2.3", "-", "-.5",
     "abc", "t.id", "x5", "nul", "truee"}

\* parser._parseValue(token)
ProbeParseValue ==
    \E token \in ValueTokenInputs :
        Probed("_parseValue", token, ParseValue(token))

\* Column definitions of CREATE TABLE, as their words
FirstColumnInputs ==
    {<<"id", "INT">>,
     <<"id", "INT", "PRIMARY", "KEY">>,
     <<"id", "INT", "NOT", "NULL", "PRIMARY", "KEY">>,
     <<"id", "INT", "PRIMARY", "KEY", "NOT", "NULL">>,
     <<"id", "text", "unique", "not", "null">>,
     <<"id", "INT", "AUTOINCREMENT", "UNIQUE">>,
     <<"id", "INT", "PRIMARY", "UNIQUE">>,
     <<"id", "INT", "NOT", "UNIQUE", "KEY">>,
     <<"id", "INT", "DEFAULT", "5", "NOT", "NULL">>,
     <<"id", "BOOL", "KEY", "NULL", "PRIMARY">>}

LaterColumnInputs ==
    {<<"n", "INT">>, <<"n", "INT", "UNIQUE">>,
     <<"n", "TEXT", "FOO", "PRIMARY", "KEY">>}

CreateInputs ==
    {<<d>> : d \in FirstColumnInputs}
    \cup {<<d, e>> : d \in FirstColumnInputs, e \in LaterColumnInputs}

\* The words of one column definition as text
RECURSIVE WordsText(_, _)
WordsText(words, i) ==
    IF i > Len(words) THEN ""
    ELSE words[i] \o (IF i < Len(words) THEN " " ELSE "") \o WordsText(words, i + 1)

\* The CREATE TABLE statement with the column definitions defs
CreateText(defs) ==
    "CREATE TABLE t (" \o WordsText(defs[1], 1)
    \o (IF Len(defs) > 1 THEN ", " \o WordsText(defs[2], 1) ELSE "") \o ")"

\* Parse(sql) of the statement of every input of CreateInputs
CreateParsed == [defs \in CreateInputs |-> Parse(CreateText(defs))]

\* parser.parse(sql) of a CREATE TABLE statement
ProbeParseCreate ==
    \E defs \in CreateInputs :
        Probed("_parseCreate", defs, CreateParsed[defs])

NextProbe ==
    \/ ProbeRowLike
    \/ ProbeJoinLike
    \/ ProbeTokenize
    \/ ProbeParseValue
    \/ ProbeParseCreate

SpecProbe == InitProbe /\ [][NextProbe]_vars

\* ------------------------------------------------------------------------
\* Properties of the table (checked under Spec)
\* ------------------------------------------------------------------------
\* The 0-based positions of the rows whose column c holds a non-null value
\* with property key k
PositionsOf(t, c, k) ==
    {i - 1 : i \in {j \in DOMAIN t.rows :
                      ~IsNullish(Get(t.rows[j], c)) /\ ToKey(Get(t.rows[j], c)) = k}}

\* The index on column c is what a rebuild from a full scan would give, as a
\* mapping from values to sets of positions
IndexExact(t, c) ==
    LET idx == t.indexes[c]
    IN /\ \A k \in DOMAIN idx :
            /\ idx[k] # <<>>
            /\ \A p, q \in DOMAIN idx[k] : p # q => idx[k][p] # idx[k][q]
            /\ Range(idx[k]) = PositionsOf(t, c, k)
       /\ \A j \in DOMAIN t.rows :
            ~IsNullish(Get(t.rows[j], c)) => ToKey(Get(t.rows[j], c)) \in DOMAIN idx

\* C1: after any sequence of insert, update, delete, truncate and
\* createIndex calls, failed calls included, every index maps each non-null
\* value to exactly the positions of the rows holding it: no stale, missing
\* or repeated position and no bucket for a value no row holds.
C1_IndexesExact == \A c \in DOMAIN table.indexes : IndexExact(table, c)

\* The non-null values stored in column c
ColumnValues(t, c) ==
    {Get(t.rows[j], c) : j \in {i \in DOMAIN t.rows : ~IsNullish(Get(t.rows[i], c))}}

UniqueColumnNames(t) ==
    {t.columns[i].name : i \in {j \in DOMAIN t.columns : IsUniqueColumn(t.columns[j])}}

\* C2: after any sequence of insert, update, delete and truncate calls,
\* calls that fail partway included, the unique-tracking set of every unique
\* or primary-key column is exactly the set of non-null values stored in that
\* column.
C2_UniqueSetsExact ==
    \A c \in UniqueColumnNames(table) :
        /\ c \in DOMAIN table.uniqueMap
        /\ table.uniqueMap[c] = ColumnValues(table, c)

\* C3: in every reachable state no two rows hold the same non-null value in
\* a UNIQUE or PRIMARY KEY column, and every row holds a non-null value in
\* the primary-key column.
C3_KeysUnique ==
    /\ \A c \in UniqueColumnNames(table) :
          \A i, j \in DOMAIN table.rows :
              (i # j /\ ~IsNullish(Get(table.rows[i], c)))
                  => Get(table.rows[i], c) # Get(table.rows[j], c)
    /\ \A i \in DOMAIN table.rows :
          \A k \in DOMAIN table.columns :
              table.columns[k].primaryKey
                  => ~IsNullish(Get(table.rows[i], table.columns[k].name))

\* The errors with which insert rejects a row
InsertRejections ==
    {"NOT NULL constraint violation", "Type mismatch", "UNIQUE constraint violation"}

\* C4: an insert rejected for a NOT NULL, type or UNIQUE / PRIMARY KEY
\* violation leaves the table exactly as it was: rows, their order, unique
\* sets and indexes.
C4_RejectedInsertNoChange ==
    [][(last'.op = "insert" /\ last'.err \in InsertRejections) => table' = table]_vars

C4_Witness ==
    /\ last.op = "insert"
    /\ last.err = "UNIQUE constraint violation"
    /\ Len(table.rows) >= 1
    /\ "grp" \in DOMAIN table.indexes

\* The rows of `rows`, in order, that satisfy the equality column = value
RECURSIVE RowsHolding(_, _, _)
RowsHolding(rows, column, value) ==
    IF rows = <<>> THEN <<>>
    ELSE (IF Get(Head(rows), column) = value THEN <<Head(rows)>> ELSE <<>>)
         \o RowsHolding(Tail(rows), column, value)

\* C7: after DELETE ... WHERE pk = x succeeds, SELECT * WHERE pk = x returns
\* no row, and for every primary-key value y still in the table
\* SELECT * WHERE pk = y returns exactly the rows holding y, wherever the
\* deleted row was and however many deletes came before.
C7_DeleteThenSelect ==
    [][\A w \in PkWhereInputs :
          LET d == Delete(table, w)
          IN (last'.op = "delete" /\ d.err = "" /\ table' = d.t)
             => /\ Select(table', <<"*">>, w) = [rows |-> <<>>, err |-> ""]
                /\ \A i \in DOMAIN table'.rows :
                      LET y == table'.rows[i]["id"]
                          s == Select(table', <<"*">>, Where("id", "=", y))
                      IN /\ s.err = ""
                         /\ s.rows = RowsHolding(table'.rows, "id", y)
                         /\ s.rows # <<>>]_vars

C7_Witness ==
    /\ last.op = "delete"
    /\ last.err = ""
    /\ last.count = 1
    /\ Len(table.rows) = 1
    /\ "id" \in DOMAIN table.indexes
    /\ Select(table, <<"*">>, Where("id", "=", table.rows[1]["id"])).rows
           = <<table.rows[1]>>

\* SELECT * FROM t
SelectAll(t) == Select(t, <<"*">>, NoWhere).rows

SetColumns(setClause) == {setClause[j].col : j \in DOMAIN setClause}

\* C8: SELECT * after n successful inserts and no deletes returns exactly n
\* rows in the order of their insertion; failed inserts and updates in
\* between do not change that order.  Step by step: a successful insert
\* appends its row to the result of SELECT *, a failed insert leaves the
\* result as it was, and an update keeps every row at its position.
C8_InsertionOrder ==
    [][/\ (last'.op = "insert" /\ last'.err = "")
            => \E rowData \in RowDataInputs :
                  SelectAll(table') = Append(SelectAll(table), rowData)
       /\ (last'.op = "insert" /\ last'.err # "")
            => SelectAll(table') = SelectAll(table)
       /\ last'.op = "update"
            => \E in \in UpdateInputs :
                  /\ table' = Update(table, in[1], in[2]).t
                  /\ Len(SelectAll(table')) = Len(SelectAll(table))
                  /\ \A i \in DOMAIN table.rows :
                        \A c \in DOMAIN table.rows[i] \ SetColumns(in[1]) :
                            SelectAll(table')[i][c] = SelectAll(table)[i][c]]_vars

\* The equality clauses on columns that may carry an index
EqualityInputs ==
    {Where(c, "=", v) : c \in {"id", "grp"},
                        v \in {Str("a"), Str("b"), Str("x"), Str("y")}}

\* C9: a select whose WHERE is an equality on an indexed column returns the
\* matching rows in insertion order (ascending row position), after any
\* sequence of inserts, updates and deletes: the positions it reads the rows
\* from are strictly ascending.
C9_IndexLookupOrder ==
    \A w \in EqualityInputs :
        w.column \in DOMAIN table.indexes
        => LET r == RowIndexes(table, w)
           IN \A j, k \in DOMAIN r.pos : j < k => r.pos[j] < r.pos[k]

\* ------------------------------------------------------------------------
\* Properties of the engine (checked under SpecEngine)
\* ------------------------------------------------------------------------
MissingWhereError(type) ==
    IF type = "UPDATE" THEN "UPDATE without WHERE clause is not allowed for safety"
    ELSE "DELETE without WHERE clause is not allowed for safety"

\* The statement of the step was parsed to an UPDATE or DELETE whose where
\* is null
AcceptedWhereLess(sql) ==
    /\ ParsedQueries[sql].err = ""
    /\ ParsedQueries[sql].ast.type \in {"UPDATE", "DELETE"}
    /\ ParsedQueries[sql].ast.where = NoWhere

\* C5 as stated: an UPDATE or DELETE written without WHERE is parsed to an
\* AST whose where is null, and executing it always fails with the
\* missing-WHERE error and leaves every table as it was.
C5_AlwaysMissingWhereError ==
    [][\A sql \in WhereLessInputs :
          (result'.call = "execute" /\ result'.sql = sql)
          => /\ AcceptedWhereLess(sql)
             /\ result'.env = Failure(MissingWhereError(ParsedQueries[sql].ast.type))
             /\ engine' = engine]_vars

\* C5 as amended: an UPDATE or DELETE written without WHERE is parsed to an
\* AST whose where is null, and executing it always fails and leaves every
\* table as it was; the error is the missing-WHERE error whenever a database
\* is selected and its lookup of the named table returns.
C5_WhereLessRejected ==
    [][\A sql \in WhereLessInputs :
          (result'.call = "execute" /\ result'.sql = sql)
          => /\ AcceptedWhereLess(sql)
             /\ result'.raised = ""
             /\ ~result'.env.success
             /\ result'.env = Failure(result'.env.error)
             /\ engine' = engine
             /\ (/\ RequireDatabase(engine) = ""
                 /\ GetTable(engine, ParsedQueries[sql].ast.table).err = "")
                => result'.env.error =
                       MissingWhereError(ParsedQueries[sql].ast.type)]_vars

\* A DELETE without WHERE was refused with the missing-WHERE error while the
\* table it names held rows
C5_Witness ==
    /\ result.call = "execute"
    /\ result.sql = "DELETE FROM t"
    /\ result.env = Failure(MissingWhereError("DELETE"))
    /\ engine.database.kind = "db"
    /\ "t" \in DOMAIN engine.databases[engine.database.name].tables
    /\ Len(engine.databases[engine.database.name].tables["t"].rows) > 0

\* C6: execute returns an envelope for every query text in every engine
\* state and never raises; a failure of the parser or of the handler comes
\* back as the envelope success = false, error = its message, data = null,
\* rowsAffected = 0.
C6_ExecuteNeverRaises ==
    [][result'.call = "execute"
       => /\ result'.raised = ""
          /\ result'.env.success \in BOOLEAN
          /\ ~result'.env.success
             => result'.env = Failure(result'.env.error) /\ result'.env.error # ""
          /\ ParsedQueries[result'.sql].err # ""
             => result'.env = Failure(ParsedQueries[result'.sql].err)
          /\ (/\ ParsedQueries[result'.sql].err = ""
              /\ Dispatch(engine, ParsedQueries[result'.sql].ast).err # "")
             => result'.env =
                    Failure(Dispatch(engine, ParsedQueries[result'.sql].ast).err)]_vars

\* A query whose handler hit a TypeError came back as a failure envelope
C6_Witness ==
    /\ result.call = "execute"
    /\ result.sql = "INSERT INTO t (id) VALUES ('constructor')"
    /\ result.raised = ""
    /\ result.env = Failure(TypeError)

\* ------------------------------------------------------------------------
\* Properties of held rows (checked under SpecHeld)
\* ------------------------------------------------------------------------
\* C10: the rows select returned are copies: an update or delete on the
\* table leaves every row the caller holds as it was, and a caller's write
\* into a row it holds leaves the table as it was.
C10_SelectReturnsCopies ==
    [][/\ last'.op \in {"update", "delete"} => held'.rows = held.rows
       /\ last'.op = "mutate" => table' = table]_vars

\* The caller holds a row whose stored original an update changed afterwards
C10_Witness ==
    /\ last.op = "update"
    /\ last.count > 0
    /\ \E k \in DOMAIN held.rows, i \in DOMAIN table.rows :
          /\ "grp" \in DOMAIN held.rows[k]
          /\ held.rows[k]["id"] = table.rows[i]["id"]
          /\ held.rows[k]["grp"] # table.rows[i]["grp"]

\* --------------------------------------------------------------------------
\* Columns, projection, joins and comparisons
\* --------------------------------------------------------------------------

\* The columns of every table of every database the manager holds
AllColumns(eng) ==
    UNION {UNION {Range(eng.databases[d].tables[n].columns) :
                     n \in DOMAIN eng.databases[d].tables} :
              d \in DOMAIN eng.databases}

\* C11: every column with primaryKey set is unique and not null, whatever
\* options it was constructed with, in tables built by CREATE TABLE and in
\* tables rebuilt from the data file
C11_PrimaryKeyImpliesConstraints ==
    \A c \in AllColumns(engine) : c.primaryKey => c.unique /\ c.notNull

\* A manager started on a data file holds the rebuilt table t with its
\* primary key column
C11_Witness ==
    /\ result.call = "start"
    /\ "default" \in DOMAIN engine.databases
    /\ "t" \in DOMAIN engine.databases["default"].tables
    /\ engine.databases["default"].tables["t"].columns[1].primaryKey

\* Column lists and WHERE clauses of the selects C12 looks at
ProjectionInputs ==
    SelectInputs
    \cup {<<<<"grp", "id">>, NoWhere>>,
          <<<<"constructor">>, NoWhere>>,
          <<<<"id", "toString">>, Where("id", "=", Str("a"))>>}

\* C12: a select that names only schema columns (or '*') and succeeds
\* returns rows holding exactly the requested columns; a select that names
\* a column outside the schema fails with the unknown-column error and
\* returns no rows
C12_Projection ==
    \A in \in ProjectionInputs :
        LET requested == IF "*" \in Range(in[1]) \/ Len(in[1]) = 0
                         THEN Range(ColumnNames(table)) ELSE Range(in[1])
            Checked(r) ==
                IF \A c \in requested : HasColumn(table, c)
                THEN r.err = "" => \A k \in DOMAIN r.rows :
                                       DOMAIN r.rows[k] = requested
                ELSE r.err = "Unknown column" /\ r.rows = <<>>
        IN Checked(Select(table, in[1], in[2]))

\* The pairs (i, j) of a row of table 1 and a row of table 2 whose join
\* values are equal, of one type and not null
MatchingPairs(rows1, column1, rows2, column2) ==
    {p \in (DOMAIN rows1) \X (DOMAIN rows2) :
        /\ rows1[p[1]][column1] # Null
        /\ rows1[p[1]][column1] = rows2[p[2]][column2]}

\* C13: an inner join of a and b on a.x = b.<column> returns exactly one row
\* per pair of rows whose join values are equal (k matches give k rows, no
\* match gives none); null and values of different types match nothing
C13_JoinPairs ==
    (result.call = "execute" /\ result.sql \in JoinSelects /\ result.env.success)
    => LET Rows(rowsA, rowsB, column2) ==
               LET Pairs(pairs) ==
                       /\ Len(result.env.data) = Cardinality(pairs)
                       /\ \A p \in pairs :
                              \E k \in DOMAIN result.env.data :
                                  result.env.data[k]
                                      = JoinedRow("a", rowsA[p[1]], "b", rowsB[p[2]])
               IN Pairs(MatchingPairs(rowsA, "x", rowsB, column2))
       IN Rows(engine.databases["default"].tables["a"].rows,
               engine.databases["default"].tables["b"].rows,
               Part(SplitDot(JoinParsed[result.sql].ast.join.on.right, ""), 2))

\* The value a returned row holds for the column of the WHERE clause: rows
\* of a join hold it under the qualified name
WhereValue(row, column) ==
    IF column \in DOMAIN row THEN row[column] ELSE row["b." \o column]

\* C14: a WHERE comparison is strict and type-sensitive. Under = and the
\* ordering operators no returned row holds a value whose type differs from
\* the type of the literal, by scan and by index alike; under != and <> every
\* stored row whose value has another type than the literal is returned
C14_StrictComparison ==
    (result.call = "execute" /\ result.sql \in TypedWhereSelects
     /\ result.env.success)
    => LET Compared(where, join) ==
               IF where.operator \in {"=", "==", ">", "<", ">=", "<="}
               THEN \A k \in DOMAIN result.env.data :
                        WhereValue(result.env.data[k], where.column).ty
                            = where.value.ty
               ELSE join.kind # "null"
                    \/ \A r \in Range(engine.databases["default"].tables["b"].rows) :
                           r[where.column].ty # where.value.ty
                           => r \in Range(result.env.data)
       IN Compared(JoinParsed[result.sql].ast.where,
                   JoinParsed[result.sql].ast.join)

\* --------------------------------------------------------------------------
\* Statements that fail part of the way
\* --------------------------------------------------------------------------

\* The positions of the rows of t that match where, in row order
MatchingPositions(t, where) ==
    LET RECURSIVE From(_)
        From(i) == IF i > Len(t.rows) THEN <<>>
                   ELSE IF RowMatchesWhere(t.rows[i], where).b
                   THEN <<i>> \o From(i + 1)
                   ELSE From(i + 1)
    IN From(1)

\* The row `row` with the SET entries assigned in order
RowWithSet(row, setClause) ==
    [c \in DOMAIN row |->
        IF \E j \in DOMAIN setClause : setClause[j].col = c
        THEN setClause[CHOOSE j \in DOMAIN setClause :
                 /\ setClause[j].col = c
                 /\ \A l \in DOMAIN setClause :
                        setClause[l].col = c => l <= j].val
        ELSE row[c]]

\* C15: an update that fails on a uniqueness conflict at its k-th matching
\* row (k - 1 rows were updated when it failed) leaves the first k-1 matching
\* rows with their new values and the k-th and later matching rows, like
\* every other row, as they were
C15_NoRollback ==
    \A in \in UpdateInputs :
        LET Checked(r, hits) ==
                r.err = "UNIQUE constraint violation"
                => /\ Len(r.t.rows) = Len(table.rows)
                   /\ r.ret + 1 \in DOMAIN hits
                   /\ \A i \in DOMAIN table.rows :
                          r.t.rows[i] =
                              IF \E n \in 1..r.ret : hits[n] = i
                              THEN RowWithSet(table.rows[i], in[1])
                              ELSE table.rows[i]
        IN Checked(Update(table, in[1], in[2]),
                   IF in[2] = NoWhere THEN <<>>
                   ELSE MatchingPositions(table, in[2]))

\* An update is about to fail on its second matching row, in a run without
\* an earlier fault
C15_Witness ==
    /\ sinceFault = 0
    /\ \E in \in UpdateInputs :
           LET About(r) == r.err = "UNIQUE constraint violation" /\ r.ret >= 1
           IN About(Update(table, in[1], in[2]))

\* The messages of the two count checks of _executeInsert
ArityErrors ==
    {"Column count doesn't match value count",
     "Value count doesn't match column count"}

\* C16: an INSERT into a table of the selected database whose value count
\* differs from the number of target columns (the column list, or the
\* table's columns without a list) fails with an arity error and changes
\* nothing; with matching counts a successful INSERT appends one row that
\* holds the i-th value in the i-th target column
C16_InsertArity ==
    [][(/\ result'.call = "execute"
        /\ ParsedQueries[result'.sql].err = ""
        /\ ParsedQueries[result'.sql].ast.type = "INSERT"
        /\ engine.database.kind = "db"
        /\ ParsedQueries[result'.sql].ast.table
               \in DOMAIN engine.databases[engine.database.name].tables)
       => LET Checked(ast, name, targets) ==
                  IF Len(targets) # Len(ast.values)
                  THEN /\ ~result'.env.success
                       /\ result'.env.error \in ArityErrors
                       /\ result'.env = Failure(result'.env.error)
                       /\ engine' = engine
                  ELSE result'.env.success
                       => LET Stored(old, new) ==
                                  /\ Len(new) = Len(old) + 1
                                  /\ SubSeq(new, 1, Len(old)) = old
                                  /\ \A i \in DOMAIN targets :
                                         new[Len(new)][targets[i]] = ast.values[i]
                          IN Stored(engine.databases[name].tables[ast.table].rows,
                                    engine'.databases[name].tables[ast.table].rows)
          IN Checked(ParsedQueries[result'.sql].ast,
                     engine.database.name,
                     IF Len(ParsedQueries[result'.sql].ast.columns) > 0
                     THEN ParsedQueries[result'.sql].ast.columns
                     ELSE ColumnNames(engine.databases[engine.database.name]
                              .tables[ParsedQueries[result'.sql].ast.table]))]_vars

\* An INSERT with one value into the two-column table t, which holds a row,
\* was rejected by the count check
C16_Witness ==
    /\ result.sql = "INSERT INTO t VALUES ('a')"
    /\ result.env = Failure("Value count doesn't match column count")
    /\ engine.database.kind = "db"
    /\ "t" \in DOMAIN engine.databases[engine.database.name].tables
    /\ Len(engine.databases[engine.database.name].tables["t"].rows) >= 1

\* --------------------------------------------------------------------------
\* Persistence and the catalog of databases
\* --------------------------------------------------------------------------

\* The statement types that modify data or schema
ModificationTypes ==
    {"INSERT", "UPDATE", "DELETE", "CREATE_TABLE", "DROP_TABLE",
     "CREATE_DATABASE", "DROP_DATABASE"}

\* C17: with persistence enabled, after every successful modification
\* executed through the engine the data file holds the in-memory state
C17_SavedAfterModification ==
    [][(/\ result'.call = "execute"
        /\ result'.env.success
        /\ PersistParsed[result'.sql].ast.type \in ModificationTypes)
       => engine'.disk = SerializeManager(engine')]_vars

\* C18: the manager's current selection is null or the name of a database
\* in its catalog
C18_SelectionInCatalog ==
    engine.manager
    => engine.current = "" \/ engine.current \in DOMAIN engine.databases

\* The statements that work on the tables of the selected database
IsTableLevel(ast) ==
    \/ ast.type \in {"CREATE_TABLE", "DROP_TABLE", "INSERT", "SELECT",
                     "UPDATE", "DELETE"}
    \/ ast.type = "SHOW" /\ ast.target = "TABLES"

\* C19: while the manager has no database selected, a table-level statement
\* fails with 'No database selected' and changes nothing
C19_NoDatabaseSelected ==
    [][(/\ engine.manager
        /\ engine.current = ""
        /\ result'.call = "execute"
        /\ ParsedQueries[result'.sql].err = ""
        /\ IsTableLevel(ParsedQueries[result'.sql].ast))
       => /\ ~result'.env.success
          /\ result'.env = Failure("No database selected")
          /\ engine' = engine]_vars

\* The catalog, every database's tables and the current selection
CatalogOf(eng) == <<eng.databases, eng.order, eng.current>>

\* C20: CREATE DATABASE of a name in the catalog, and DROP DATABASE or USE of
\* a name outside it, change neither the catalog nor any table nor the
\* selection; with the IF NOT EXISTS / IF EXISTS guard the statement reports
\* success, without it failure
C20_NoOpDatabaseStatements ==
    [][(/\ engine.manager
        /\ result'.call = "execute"
        /\ ParsedQueries[result'.sql].err = ""
        /\ ParsedQueries[result'.sql].ast.type
               \in {"CREATE_DATABASE", "DROP_DATABASE", "USE"})
       => LET Checked(ast, exists) ==
                  (exists <=> ast.type = "CREATE_DATABASE")
                  => /\ CatalogOf(engine') = CatalogOf(engine)
                     /\ result'.env.success
                            <=> (/\ ast.type = "CREATE_DATABASE" => ast.ifNotExists
                                 /\ ast.type = "DROP_DATABASE" => ast.ifExists
                                 /\ ast.type # "USE")
          IN Checked(ParsedQueries[result'.sql].ast,
                     ParsedQueries[result'.sql].ast.database
                         \in DOMAIN engine.databases)]_vars

\* --------------------------------------------------------------------------
\* The tables of a database
\* --------------------------------------------------------------------------

\* The names in `order` without `name`
Without(order, name) ==
    LET RECURSIVE From(_)
        From(i) == IF i > Len(order) THEN <<>>
                   ELSE IF order[i] = name THEN From(i + 1)
                   ELSE <<order[i]>> \o From(i + 1)
    IN From(1)

\* C21: on the database the engine works on, a successful CREATE TABLE adds
\* its name to the table list and a successful DROP TABLE removes it, every
\* other table staying as it is; CREATE TABLE of a listed name, and DROP
\* TABLE or any row statement naming a table that is not listed, fail and
\* change nothing
C21_TableCatalog ==
    [][(/\ result'.call = "execute"
        /\ ParsedQueries[result'.sql].err = ""
        /\ ParsedQueries[result'.sql].ast.type
               \in {"CREATE_TABLE", "DROP_TABLE", "INSERT", "SELECT",
                    "UPDATE", "DELETE"}
        /\ engine.database.kind = "db")
       => LET Checked(ast, db, listed) ==
                  IF listed <=> ast.type = "CREATE_TABLE"
                  THEN ~result'.env.success /\ engine' = engine
                  ELSE (ast.type \in {"CREATE_TABLE", "DROP_TABLE"}
                        /\ result'.env.success)
                       => LET After(new) ==
                                  /\ new.order = IF ast.type = "CREATE_TABLE"
                                                 THEN Append(db.order, ast.table)
                                                 ELSE Without(db.order, ast.table)
                                  /\ DOMAIN new.tables = Range(new.order)
                                  /\ \A n \in DOMAIN db.tables \ {ast.table} :
                                         new.tables[n] = db.tables[n]
                          IN After(engine'.databases[engine.database.name])
          IN Checked(ParsedQueries[result'.sql].ast,
                     engine.databases[engine.database.name],
                     ParsedQueries[result'.sql].ast.table
                         \in DOMAIN engine.databases[engine.database.name].tables)]_vars

\* --------------------------------------------------------------------------
\* Lookups and WHERE clauses
\* --------------------------------------------------------------------------

\* C22: for every lookup value, findByPrimaryKey on a table that has its
\* primary-key index answers as it does once the index is dropped: the row
\* whose key is strictly equal to the value, or null
C22_FindSameWithoutIndex ==
    \A v \in LookupInputs :
        "id" \in DOMAIN table.indexes
        => LET Same(indexed, scanned) ==
                   /\ indexed.err = scanned.err
                   /\ indexed.found = scanned.found
                   /\ indexed.row = scanned.row
           IN Same(FindByPrimaryKey(table, v),
                   FindByPrimaryKey(DropIndex(table, "id").t, v))

\* WHERE clauses on a column the schema of users does not have
UnknownColumnWheres ==
    {Where("zz", op, Str("a")) : op \in {"=", "!=", "<>", ">", "<", ">=", "<=",
                                         "LIKE"}}

\* C23: a select, update or delete whose WHERE names a column outside the
\* schema fails with the unknown-column error and changes no row, whatever
\* the operator
C23_UnknownWhereColumn ==
    \A w \in UnknownColumnWheres :
        LET Rejected(r) == r.err = "Unknown column"
            Unchanged(r) == Rejected(r) /\ r.t.rows = table.rows
        IN /\ Rejected(Select(table, <<"*">>, w))
           /\ Unchanged(Update(table, <<Assign("grp", Str("y"))>>, w))
           /\ Unchanged(Delete(table, w))

\* Statements with further tokens after the comparison of their WHERE
\* clause, and the statement each becomes when those tokens are left out
FirstComparisonOnly ==
    [sql \in {"SELECT n FROM t WHERE id = 'a' AND n = 2",
              "UPDATE t SET n = 2 WHERE id = 'a' AND n = 5",
              "DELETE FROM t WHERE id = 'a' OR n = 1"} |->
        CASE sql = "SELECT n FROM t WHERE id = 'a' AND n = 2"
                 -> "SELECT n FROM t WHERE id = 'a'"
          [] sql = "UPDATE t SET n = 2 WHERE id = 'a' AND n = 5"
                 -> "UPDATE t SET n = 2 WHERE id = 'a'"
          [] OTHER -> "DELETE FROM t WHERE id = 'a'"]

\* C24: a statement with further tokens after the comparison of its WHERE
\* clause is never carried out as the statement without those tokens: it
\* does not succeed with that statement's result and effect
C24_OneComparisonOnly ==
    [][(result'.call = "execute" /\ result'.sql \in DOMAIN FirstComparisonOnly)
       => LET AsIfCut(r) == /\ result'.env.success
                            /\ r.env = result'.env
                            /\ r.eng = engine'
          IN ~AsIfCut(ExecuteParsed(engine,
                          ParsedQueries[FirstComparisonOnly[result'.sql]]))]_vars

\* Statements on the table t whose WHERE operator is not a supported one
UnsupportedOperatorInputs ==
    {"SELECT * FROM t WHERE id IS 'a'",
     "DELETE FROM t WHERE n IN 1",
     "SELECT * FROM t JOIN t ON t.id = t.id WHERE n IN 1"}

\* C25: a statement on an existing table whose WHERE operator is not
\* supported fails with the unknown-operator error and changes nothing,
\* whatever the table holds
C25_UnsupportedOperator ==
    [][(/\ result'.call = "execute"
        /\ result'.sql \in UnsupportedOperatorInputs
        /\ engine.database.kind = "db"
        /\ "t" \in DOMAIN engine.databases[engine.database.name].tables)
       => /\ ~result'.env.success
          /\ result'.env = Failure("Unknown operator")
          /\ engine' = engine]_vars

\* The qualified name of a column of a or b written with or without its
\* table
QualifiedName(c) ==
    IF c \in {"a.x", "b.y", "b.z"} THEN c
    ELSE IF c = "x" THEN "a.x"
    ELSE "b." \o c

\* C26: a JOIN query with a column list returns, for every joined row, a row
\* that maps each requested name, qualified or not, to the value of that
\* column in the joined row; with '*' it returns the joined rows, which hold
\* all columns of both tables under their qualified names
C26_JoinProjection ==
    (/\ result.call = "execute"
     /\ result.sql \in JoinSelects \cup ProjectedJoinSelects
     /\ result.env.success)
    => LET Projected(columns, joined) ==
               /\ Len(result.env.data) = Len(joined)
               /\ \A k \in DOMAIN joined :
                      IF "*" \in Range(columns)
                      THEN /\ result.env.data[k] = joined[k]
                           /\ DOMAIN joined[k] = {"a.x", "b.y", "b.z"}
                      ELSE /\ DOMAIN result.env.data[k] = Range(columns)
                           /\ \A c \in Range(columns) :
                                  result.env.data[k][c]
                                      = joined[k][QualifiedName(c)]
       IN Projected(JoinParsed[result.sql].ast.columns,
                    DbJoin(engine.databases["default"], "a", "b", "x",
                           Part(SplitDot(JoinParsed[result.sql].ast.join.on.right,
                                         ""), 2)).rows)

\* C27: the database an engine built on a manager executes table statements
\* against is the manager's current database: both none, or the same one
C27_EngineFollowsManager ==
    engine.manager => engine.database = GetCurrentDatabase(engine)

\* --------------------------------------------------------------------------
\* What a successful update or delete touches
\* --------------------------------------------------------------------------

\* C28: an update that succeeds changes the SET columns, and nothing else,
\* of the rows that matched WHERE before it, leaves every other row as it
\* was, keeps the number and the order of the rows, and returns the number
\* of the rows that matched
C28_UpdateFrame ==
    \A in \in UpdateInputs :
        LET Checked(r, hits) ==
                r.err = ""
                => /\ Len(r.t.rows) = Len(table.rows)
                   /\ r.ret = Len(hits)
                   /\ \A i \in DOMAIN table.rows :
                          r.t.rows[i] =
                              IF \E n \in DOMAIN hits : hits[n] = i
                              THEN RowWithSet(table.rows[i], in[1])
                              ELSE table.rows[i]
        IN Checked(Update(table, in[1], in[2]),
                   IF in[2] = NoWhere THEN <<>>
                   ELSE MatchingPositions(table, in[2]))

\* An update is about to succeed on two rows and change them, with a third
\* row that does not match
C28_Witness ==
    \E in \in UpdateInputs :
        LET About(r) == /\ r.err = ""
                        /\ r.ret >= 2
                        /\ Len(table.rows) > r.ret
                        /\ \E i \in DOMAIN table.rows :
                               r.t.rows[i] # table.rows[i]
        IN About(Update(table, in[1], in[2]))

\* The rows of t that do not match where, in row order
NonMatchingRows(t, where) ==
    LET RECURSIVE From(_)
        From(i) == IF i > Len(t.rows) THEN <<>>
                   ELSE IF RowMatchesWhere(t.rows[i], where).b
                   THEN From(i + 1)
                   ELSE <<t.rows[i]>> \o From(i + 1)
    IN From(1)

\* C29: a delete that returns removes exactly the rows that matched the
\* predicate before the call and returns their number; the rows that did not
\* match stay, with their values and in their order
C29_DeleteFrame ==
    \A where \in WhereInputs :
        LET Checked(r) ==
                r.err = ""
                => /\ r.t.rows = NonMatchingRows(table, where)
                   /\ r.ret = Len(table.rows) - Len(r.t.rows)
                   /\ r.ret = Len(MatchingPositions(table, where))
        IN Checked(Delete(table, where))

\* A delete is about to remove a row that lies between two rows it keeps
C29_Witness ==
    \E where \in WhereInputs :
        LET About(r) == /\ r.err = ""
                        /\ r.ret = 1
                        /\ Len(table.rows) = 3
                        /\ RowMatchesWhere(table.rows[2], where).b
        IN About(Delete(table, where))

\* --------------------------------------------------------------------------
\* update: validation before mutation
\* --------------------------------------------------------------------------

\* The messages of the checks update makes on a SET value
ValidationErrors ==
    {"NOT NULL constraint violation", "Type mismatch",
     "UNIQUE constraint violation"}

\* Whether the index idx lists row index n under the key of value
Lists(idx, value, n) ==
    /\ ToKey(value) \in DOMAIN idx
    /\ \E i \in DOMAIN idx[ToKey(value)] : idx[ToKey(value)][i] = n

\* Whether the row at position p has the same values, the same unique-set
\* entries and the same index entries in t2 as in t1
RowUntouched(t1, t2, p) ==
    /\ t2.rows[p] = t1.rows[p]
    /\ DOMAIN t2.uniqueMap = DOMAIN t1.uniqueMap
    /\ \A c \in DOMAIN t1.uniqueMap :
           c \in DOMAIN t1.rows[p]
           => (t1.rows[p][c] \in t2.uniqueMap[c])
                 = (t1.rows[p][c] \in t1.uniqueMap[c])
    /\ DOMAIN t2.indexes = DOMAIN t1.indexes
    /\ \A c \in DOMAIN t1.indexes :
           c \in DOMAIN t1.rows[p]
           => Lists(t2.indexes[c], t1.rows[p][c], p - 1)
                 = Lists(t1.indexes[c], t1.rows[p][c], p - 1)

\* Whether setClause assigns one unique column a value that every row of t
\* at the positions hits already holds
AssignsHeldValue(t, setClause, hits) ==
    /\ Len(setClause) = 1
    /\ Len(hits) > 0
    /\ HasColumn(t, setClause[1].col)
    /\ IsUniqueColumn(ColumnOf(t, setClause[1].col))
    /\ ~IsNullish(setClause[1].val)
    /\ \A n \in DOMAIN hits :
           Get(t.rows[hits[n]], setClause[1].col) = setClause[1].val

\* C30: an update whose SET fails validation at a matched row leaves that
\* row, its unique-set entries and its index entries as the updates of the
\* rows before it left them, and an
\* update that assigns a unique column the value the matched rows already
\* hold succeeds
C30_ValidateBeforeMutate ==
    \A in \in UpdateInputs :
        LET Checked(r, hits) ==
                /\ r.err \in ValidationErrors
                   => /\ r.ret + 1 \in DOMAIN hits
                      /\ RowUntouched(
                             UpdateRows(table, in[1], SubSeq(hits, 1, r.ret), 1).t,
                             r.t, hits[r.ret + 1])
                /\ AssignsHeldValue(table, in[1], hits)
                   => r.err = "" /\ r.t.rows = table.rows
        IN Checked(Update(table, in[1], in[2]),
                   IF in[2] = NoWhere THEN <<>>
                   ELSE MatchingPositions(table, in[2]))

\* --------------------------------------------------------------------------
\* The bookkeeping of a new table
\* --------------------------------------------------------------------------

\* INSERT statements whose row is type-correct and non-null for its table
FreshRowInserts ==
    {"INSERT INTO a VALUES (1)", "INSERT INTO b VALUES ('1', 1)",
     "INSERT INTO c VALUES (1, 2)"}

\* Whether every unique or primary-key column of t has a tracking set and
\* the primary key has an index
TracksConstraints(t) ==
    /\ \A i \in DOMAIN t.columns :
           IsUniqueColumn(t.columns[i]) => t.columns[i].name \in DOMAIN t.uniqueMap
    /\ PrimaryKeyPos(t.columns) # 0
       => t.columns[PrimaryKeyPos(t.columns)].name \in DOMAIN t.indexes

\* C31: every table CREATE TABLE builds has a tracking set for each unique
\* or primary-key column and an index on its primary key, and inserting a
\* type-correct, non-null row into the table while it is empty succeeds
C31_NewTableAcceptsRows ==
    [][/\ \A name \in DOMAIN engine'.databases["default"].tables :
              TracksConstraints(engine'.databases["default"].tables[name])
       /\ (/\ result'.sql \in FreshRowInserts
           /\ JoinParsed[result'.sql].ast.table
                  \in DOMAIN engine.databases["default"].tables
           /\ engine.databases["default"].tables[
                  JoinParsed[result'.sql].ast.table].rows = <<>>)
          => result'.env.success]_vars

\* --------------------------------------------------------------------------
\* Who owns a row
\* --------------------------------------------------------------------------

\* C32: a write into the row object handed back by insert or by
\* findByPrimaryKey (with or without the primary-key index) does not change
\* the table
C32_RowsOwnedByTable ==
    /\ \A rowData \in RowDataInputs :
           LET Kept(r) ==
                   r.err = ""
                   => WriteReturned(r.t, InsertedRow(r), "grp", Str("w")) = r.t
           IN Kept(Insert(table, rowData))
    /\ \A pkValue \in LookupInputs :
           LET Kept(f) ==
                   f.found
                   => WriteReturned(table, f.stored, "grp", Str("w")) = table
           IN Kept(FindByPrimaryKey(table, pkValue))

\* --------------------------------------------------------------------------
\* Saving and loading
\* --------------------------------------------------------------------------

\* Whether the table loaded has the columns and the rows of the table t
\* saved, with its unique sets and indexes in step with its rows
LoadedAs(loaded, t) ==
    /\ loaded.columns = t.columns
    /\ loaded.rows = t.rows
    /\ \A c \in UniqueColumnNames(loaded) :
           /\ c \in DOMAIN loaded.uniqueMap
           /\ loaded.uniqueMap[c] = ColumnValues(loaded, c)
    /\ \A c \in DOMAIN loaded.indexes : IndexExact(loaded, c)

\* C33: a manager started on the data a save of the current manager writes
\* has the databases of the current manager, in their order, the same
\* selection, and in every database the same tables with the same columns
\* and the same rows in the same order; every re-insert of the load succeeds
\* and the loaded unique sets and indexes are in step with the rows
C33_SaveThenLoad ==
    LET Same(s) ==
            /\ s.err = ""
            /\ DOMAIN s.eng.databases = DOMAIN engine.databases
            /\ s.eng.order = engine.order
            /\ s.eng.current = engine.current
            /\ \A d \in DOMAIN engine.databases :
                   /\ DOMAIN s.eng.databases[d].tables
                          = DOMAIN engine.databases[d].tables
                   /\ s.eng.databases[d].order = engine.databases[d].order
                   /\ \A n \in DOMAIN engine.databases[d].tables :
                          LoadedAs(s.eng.databases[d].tables[n],
                                   engine.databases[d].tables[n])
    IN Same(StartManager(SerializeManager(engine)))

\* --------------------------------------------------------------------------
\* Statements that only read
\* --------------------------------------------------------------------------

\* The statement types that only read
ReadOnlyTypes == {"SELECT", "SHOW"}

\* C34: executing a SELECT (with or without WHERE or JOIN) or a SHOW,
\* whether it succeeds or fails, leaves the rows, unique sets and indexes of
\* every table, the table and database catalogs and the selection as they
\* were
C34_ReadOnlyStatements ==
    [][(/\ result'.call = "execute"
        /\ ParsedQueries[result'.sql].err = ""
        /\ ParsedQueries[result'.sql].ast.type \in ReadOnlyTypes)
       => engine' = engine]_vars

\* A SHOW TABLES has listed a table that holds a row, on a manager with a
\* selection
C34_Witness ==
    /\ result.call = "execute"
    /\ result.sql = "SHOW TABLES"
    /\ result.env.success
    /\ engine.manager
    /\ engine.current # ""
    /\ Len(result.env.data) > 0
    /\ TotalRows(engine, 1) > 0

\* --------------------------------------------------------------------------
\* The standalone hash index
\* --------------------------------------------------------------------------

\* The number of positions stored across the buckets of data
RECURSIVE TotalPositions(_, _)
TotalPositions(data, keys) ==
    IF keys = {} THEN 0
    ELSE LET k == CHOOSE x \in keys : TRUE
         IN Len(data[k]) + TotalPositions(data, keys \ {k})

\* The array a without the first occurrence of p
WithoutFirst(a, p) == IF IndexOf(a, p) = 0 THEN a ELSE RemoveAt(a, IndexOf(a, p))

\* C35: after any sequence of add, remove, update, clear and rebuild calls
\* no bucket is empty, entryCount is the number of positions stored across
\* the buckets, adding a null or absent value changes nothing, has(v) is
\* true exactly when find(v) is non-empty, and remove(v, p) takes one
\* occurrence of p out of v's bucket, or none, and changes no other bucket
C35_HashIndex ==
    /\ \A k \in DOMAIN index.data : index.data[k] # <<>>
    /\ index.entryCount = TotalPositions(index.data, DOMAIN index.data)
    /\ \A v \in IndexValueInputs, p \in IndexPositionInputs :
           IsNullish(v) => HashAdd(index, v, p) = [ix |-> index, err |-> ""]
    /\ \A v \in IndexValueInputs :
           LET Agree(f) == f.err = "" /\ (HashHas(index, v) <=> f.ret # <<>>)
           IN Agree(HashFind(index, v))
    /\ \A v \in IndexValueInputs, p \in IndexPositionInputs :
           LET Removed(r) ==
                   /\ r.err = ""
                   /\ \A k \in DOMAIN index.data :
                          IF ~IsNullish(v) /\ k = ToKey(v)
                             /\ WithoutFirst(index.data[k], p) = <<>>
                          THEN k \notin DOMAIN r.ix.data
                          ELSE /\ k \in DOMAIN r.ix.data
                               /\ r.ix.data[k]
                                      = IF ~IsNullish(v) /\ k = ToKey(v)
                                        THEN WithoutFirst(index.data[k], p)
                                        ELSE index.data[k]
                   /\ DOMAIN r.ix.data \subseteq DOMAIN index.data
           IN Removed(HashRemove(index, v, p))

\* --------------------------------------------------------------------------
\* LIKE
\* --------------------------------------------------------------------------

\* Whether the characters text[j..] match the LIKE pattern p[i..]: % stands
\* for any sequence of characters, _ for any one character, every other
\* character for itself in either letter case
RECURSIVE LikeMatches(_, _, _, _)
LikeMatches(p, i, text, j) ==
    IF i > Len(p) THEN j > Len(text)
    ELSE IF p[i] = "%"
    THEN LikeMatches(p, i + 1, text, j)
         \/ (j <= Len(text) /\ LikeMatches(p, i, text, j + 1))
    ELSE IF p[i] = "_"
    THEN j <= Len(text) /\ LikeMatches(p, i + 1, text, j + 1)
    ELSE /\ j <= Len(text)
         /\ Fold(p[i]) = Fold(text[j])
         /\ LikeMatches(p, i + 1, text, j + 1)

\* The functions that evaluate LIKE: the single-table and the JOIN path
LikeFunctions == {"_rowMatchesWhere", "_evaluateCondition"}

\* C36: on both paths LIKE raises nothing, is false for a value that is not
\* a string, and for a string is true exactly when the whole value matches
\* the pattern, % standing for any sequence of characters, _ for any one
\* character and every other character for itself in either letter case
C36_LikeMatching ==
    probe.fn \in LikeFunctions
    => /\ probe.out.err = ""
       /\ probe.out.b
              = (/\ probe.in[1].ty = "string"
                 /\ LikeMatches(Chars(probe.in[2].s), 1, Chars(probe.in[1].s), 1))

\* --------------------------------------------------------------------------
\* The tokenizer and the parser, one function at a time
\* --------------------------------------------------------------------------

\* Whether a token came out of the number branch of the tokenizer: no other
\* branch emits a token that starts with a digit or '-'
IsNumberBranchToken(token) == Head(token) \in Digits \/ Head(token) = "-"

\* C37: every token the tokenizer emits from number-like text has the form
\* optional '-', digits, optionally '.' and digits
C37_NumericTokens ==
    probe.fn = "_tokenize"
    => \A k \in DOMAIN probe.out.tokens :
           IsNumberBranchToken(probe.out.tokens[k])
           => IsIntToken(probe.out.tokens[k]) \/ IsFloatToken(probe.out.tokens[k])

\* Whether a token is wrapped in quotes
IsQuoted(token) ==
    /\ Len(token) >= 2
    /\ Head(token) = "'"
    /\ SubSeq(token, Len(token), Len(token)) = "'"

\* The keywords that stand for a value, in upper case
ValueKeywords == {"NULL", "TRUE", "FALSE"}

\* C38: _parseValue gives null, true or false for an unquoted NULL, TRUE or
\* FALSE in any letter case, the string between the quotes for a quoted
\* token, a number for an unquoted integer or decimal token, and the token
\* itself as a string for any other token
C38_ValueCoercion ==
    probe.fn = "_parseValue"
    => /\ probe.out.err = ""
       /\ probe.out.v
              = IF IsQuoted(probe.in)
                THEN Str(SubSeq(probe.in, 2, Len(probe.in) - 1))
                ELSE IF ToUpperCase(probe.in) \in ValueKeywords
                THEN (IF ToUpperCase(probe.in) = "NULL" THEN Null
                      ELSE Bool(ToUpperCase(probe.in) = "TRUE"))
                ELSE IF IsIntToken(probe.in) THEN Num(ParseInt(probe.in))
                ELSE IF IsFloatToken(probe.in) THEN ParseFloat(probe.in)
                ELSE Str(probe.in)

\* A quoted keyword has been coerced
C38_Witness ==
    /\ probe.fn = "_parseValue"
    /\ probe.in = "'NULL'"
    /\ probe.out.v = Str("NULL")

\* Whether the words w1 w2 stand next to each other, in any letter case, in
\* the column definition words
HasPhrase(words, w1, w2) ==
    \E i \in 1..(Len(words) - 1) :
        ToUpperCase(words[i]) = w1 /\ ToUpperCase(words[i + 1]) = w2

\* Whether the word w stands in the column definition words
HasWord(words, w) == \E i \in DOMAIN words : ToUpperCase(words[i]) = w

\* C39: parsing a CREATE TABLE statement raises no error for a word it does
\* not know, and the primaryKey, notNull and unique flags of every parsed
\* column are true exactly when its definition holds PRIMARY KEY, NOT NULL
\* and UNIQUE, in whatever order and whatever other words stand in this or
\* an earlier definition
C39_ConstraintFlags ==
    probe.fn = "_parseCreate"
    => /\ probe.out.err = ""
       /\ Len(probe.out.ast.columns) = Len(probe.in)
       /\ \A k \in DOMAIN probe.in :
              probe.out.ast.columns[k]
                  = [name |-> probe.in[k][1],
                     type |-> ToUpperCase(probe.in[k][2]),
                     primaryKey |-> HasPhrase(probe.in[k], "PRIMARY", "KEY"),
                     notNull |-> HasPhrase(probe.in[k], "NOT", "NULL"),
                     unique |-> HasWord(probe.in[k], "UNIQUE")]

\* A statement whose first definition holds unknown words and whose later
\* definition holds PRIMARY KEY has been parsed
C39_Witness ==
    /\ probe.fn = "_parseCreate"
    /\ probe.in = <<<<"id", "INT", "DEFAULT", "5", "NOT", "NULL">>,
                    <<"n", "TEXT", "FOO", "PRIMARY", "KEY">>>>
    /\ probe.out.ast.columns[1].notNull
    /\ ~probe.out.ast.columns[1].primaryKey
    /\ probe.out.ast.columns[2].primaryKey

\* --------------------------------------------------------------------------
\* Statistics
\* --------------------------------------------------------------------------

\* The number of tables of the databases of eng from the k-th on
RECURSIVE TotalTables(_, _)
TotalTables(eng, k) ==
    IF k > Len(eng.order) THEN 0
    ELSE Len(eng.databases[eng.order[k]].order) + TotalTables(eng, k + 1)

\* C40: getStats reports the number of databases, the number of tables
\* summed over the databases and the number of rows summed over all tables,
\* each a number that is not NaN
C40_ManagerStats ==
    LET Reported(s) ==
            /\ s.databaseCount = [nan |-> FALSE, n |-> Cardinality(DOMAIN engine.databases)]
            /\ s.totalTables = [nan |-> FALSE, n |-> TotalTables(engine, 1)]
            /\ s.totalRows = [nan |-> FALSE, n |-> TotalRows(engine, 1)]
    IN Reported(GetStats(engine))

====
